---- MODULE Spec2Model ----
(***************************************************************************)
(* The NHK Easy News backfill run (src/nhk-scraper/backfill_articles.py):  *)
(* one process invocation of main() after the other, against the upstream  *)
(* HTTP service and the MySQL table "news".                                *)
(*                                                                         *)
(* A date is a small integer (ISO dates compare as strings the way these   *)
(* compare as numbers).  A catalog maps some dates to a sequence of        *)
(* news_ids; the other fields of an article's metadata are read when the   *)
(* loop reaches the article.  A row of the table is its news_id.           *)
(***************************************************************************)
EXTENDS Integers, Sequences, FiniteSets, TLC

\* ---------------------------------------------------------------- bounds
MaxDate == 2
MaxArticles == 2
MaxDays == 1
MaxTokens == 7
MaxDepth == 2

NewsIds == {"k1", "k2"}
Dates == 1..MaxDate
Today == MaxDate
NoArg == -1
NoExit == -1

VARIABLES
    pc,             \* where main() is: idle, auth, list, connect, dates, articles,
                    \* check, fetch, insert, commit, finally, summary, exited
    dry_run,        \* args.dry_run
    start_date,     \* start_date, end_date of main
    end_date,
    authenticated,  \* NHKAuthenticatedSession._authenticated
    news_list,      \* the mapping fetch_news_list returned
    target_dates,   \* the sorted dates of the range
    date_idx,       \* position of the outer for loop in target_dates
    art_idx,        \* position of the inner for loop in news_list[date_key]
    news_id,        \* the current article's news_id
    conn,           \* the database connection: "none", "open", "closed"
    txn,            \* rows inserted on the connection and not yet committed
    store,          \* the committed rows of the table news
    total_articles,
    new_articles,
    skipped_articles,
    failed_articles,
    exc,            \* an exception is propagating out of the try block
    exit_status,    \* the process's exit status, NoExit while it runs
    log,            \* the per-article result lines printed in this run
    summary,        \* the counts printed by the final summary, <<>> if none
    http,           \* requests issued in this run, per endpoint
    last_response,  \* the latest HTTP exchange: its endpoint, its status, its JSON type
    db_statements,  \* statements issued on the connection in this run, per kind
    store0,         \* the committed rows when the run started
    prev_run,       \* range, catalog and failed count of the previous run, if it
                    \* was a real run that committed and printed its summary
    rerun,          \* this real run repeats the range and catalog of such a run
    prev_failed,    \* the failed count of the run this run repeats
    fn,             \* a function called on its own: "" (none), where its call is
    fn_arg,         \* its argument
    fn_ret,         \* what it returned
    engine_ready,   \* deploy_voicevox.py, serve: the flag engine_ready
    engine_thread,  \* the start_engine thread: where it is, its polls so far,
                    \* whether a poll was answered 200
    speech          \* the create_speech request in progress: where it is, its
                    \* waits, whether it has read engine_ready true, its
                    \* requests to the engine, its response status

vars == <<pc, dry_run, start_date, end_date, authenticated, news_list,
          target_dates, date_idx, art_idx, news_id, conn, txn, store,
          total_articles, new_articles, skipped_articles, failed_articles,
          exc, exit_status, log, summary, http, last_response,
          db_statements, store0, prev_run, rerun, prev_failed, fn, fn_arg, fn_ret,
          engine_ready, engine_thread, speech>>

\* ---------------------------------------------------------------- helpers
RECURSIVE SeqsUpTo(_, _)
SeqsUpTo(S, n) ==
    IF n = 0 THEN {<<>>}
    ELSE LET shorter == SeqsUpTo(S, n - 1)
         IN  shorter \cup {Append(s, x) : s \in {t \in shorter : Len(t) = n - 1}, x \in S}

RECURSIVE SumLen(_, _)
SumLen(c, D) ==
    IF D = {} THEN 0
    ELSE LET d == CHOOSE x \in D : TRUE
         IN  Len(c[d]) + SumLen(c, D \ {d})

\* The catalogs the upstream may answer with: some dates, each with its articles.
Catalogs ==
    UNION {{c \in [D -> SeqsUpTo(NewsIds, MaxArticles)] : SumLen(c, D) <= MaxArticles}
           : D \in SUBSET Dates}

NoCatalog == [d \in {} |-> <<>>]
NoPrev == [done |-> FALSE, failed |-> 0, start_date |-> 0, end_date |-> 0,
           list |-> NoCatalog]

Range(s) == {s[i] : i \in 1..Len(s)}

\* sorted(news_list.keys()) filtered by start_date <= d <= end_date
RECURSIVE SortedSeq(_)
SortedSeq(S) ==
    IF S = {} THEN <<>>
    ELSE LET m == CHOOSE x \in S : \A y \in S : x <= y
         IN  <<m>> \o SortedSeq(S \ {m})

TargetDates(list, s, e) == SortedSeq({d \in DOMAIN list : s <= d /\ d <= e})

NoHttp == [auth |-> 0, list |-> 0, article |-> 0]
NoResponse == [url |-> "", status |-> "", json |-> ""]
NoStatements == [select |-> 0, insert |-> 0, commit |-> 0]

\* A JSON document of the catalog endpoint: a mapping, or a list of mappings.
JsonDict(m) == [type |-> "dict", val |-> <<m>>]
JsonList(s) == [type |-> "list", val |-> s]

CatalogJson(c, shape) ==
    CASE shape = "mapping"    -> JsonDict(c)
      [] shape = "wrapped"    -> JsonList(<<c>>)
      [] shape = "empty_list" -> JsonList(<<>>)

\* fetch_news_list without the unwrapping of lines 100-101
FetchNewsListResult_NoUnwrap(data) == data

\* fetch_news_list, lines 97-103: the first element of a non-empty list, else the data
FetchNewsListResult(data) ==
    IF data.type = "list" /\ Len(data.val) > 0 THEN JsonDict(data.val[1]) ELSE data

\* ------------------------------------------------------- parse_nhk_datetime
\* A timestamp string is the tuple of the six numbers its text spells,
\* <<year, month, day, hour, minute, second>>; the empty tuple is the empty
\* string (or a missing value); any other tuple is a text not in the format.
JstOffsetHours == 9

IsLeap(y) == y % 4 = 0 /\ (y % 100 # 0 \/ y % 400 = 0)

DaysInMonth(y, m) ==
    CASE m = 2 -> IF IsLeap(y) THEN 29 ELSE 28
      [] m \in {4, 6, 9, 11} -> 30
      [] OTHER -> 31

\* strptime(date_str, "%Y-%m-%d %H:%M:%S") returns a datetime: every field in
\* its range, the day one of its month; otherwise it raises ValueError
WellFormedTime(t) ==
    /\ Len(t) = 6
    /\ t[1] \in 1..9999
    /\ t[2] \in 1..12
    /\ t[3] \in 1..DaysInMonth(t[1], t[2])
    /\ t[4] \in 0..23
    /\ t[5] \in 0..59
    /\ t[6] \in 0..59

\* the day before, which may be the last day of year 0
PrevDay(y, m, d) ==
    IF d > 1 THEN <<y, m, d - 1>>
    ELSE IF m > 1 THEN <<y, m - 1, DaysInMonth(y, m - 1)>>
    ELSE <<y - 1, 12, 31>>

\* the subtraction with every month taken to have 30 days
MinusHours_ThirtyDayMonths(t, n) ==
    LET secs == t[4] * 3600 + t[5] * 60 + t[6] - n * 3600
        day  == IF t[3] > 1 THEN <<t[1], t[2], t[3] - 1>>
                ELSE IF t[2] > 1 THEN <<t[1], t[2] - 1, 30>>
                ELSE <<t[1] - 1, 12, 30>>
    IN  IF secs >= 0
        THEN <<t[1], t[2], t[3], secs \div 3600, (secs % 3600) \div 60, secs % 60>>
        ELSE <<day[1], day[2], day[3], (secs + 86400) \div 3600,
               ((secs + 86400) % 3600) \div 60, (secs + 86400) % 60>>

\* dt - timedelta(hours=n), line 204, for n up to 24
MinusHours(t, n) ==
    LET secs == t[4] * 3600 + t[5] * 60 + t[6] - n * 3600
        day  == PrevDay(t[1], t[2], t[3])
    IN  IF secs >= 0
        THEN <<t[1], t[2], t[3], secs \div 3600, (secs % 3600) \div 60, secs % 60>>
        ELSE <<day[1], day[2], day[3], (secs + 86400) \div 3600,
               ((secs + 86400) % 3600) \div 60, (secs + 86400) % 60>>

\* parse_nhk_datetime, lines 195-207: what it raises ("" when it returns) and
\* what it returns (<<>> is None, <<dt>> a datetime). A ValueError is caught;
\* the OverflowError of a result before year 1 is not.
ParseNhkDatetime(t) ==
    IF t = <<>> THEN [raises |-> "", val |-> <<>>]
    ELSE IF ~WellFormedTime(t) THEN [raises |-> "", val |-> <<>>]
    ELSE LET dt == MinusHours(t, JstOffsetHours)
         IN  IF dt[1] < 1
             THEN [raises |-> "OverflowError", val |-> <<>>]
             ELSE [raises |-> "", val |-> <<dt>>]

\* The timestamps of the articles of a catalog: none, a text not in the format,
\* a day out of range, a date and time, and one of the first hours of year 1.
ArticleTimes ==
    {<<>>, <<0>>, <<2025, 2, 30, 10, 0, 0>>, <<2025, 12, 3, 19, 30, 0>>,
     <<1, 1, 1, 5, 0, 0>>}

\* parse_article_html as it would be if a null timestamp made it return None
ParseArticleRecord_NullTimeIsFailure(r, id, t) ==
    CASE r \in {"non200", "no_body"} -> [raises |-> "", val |-> <<>>]
      [] r = "ok" ->
            LET published_at == ParseNhkDatetime(t)
            IN  IF published_at.raises # ""
                THEN [raises |-> published_at.raises, val |-> <<>>]
                ELSE IF published_at.val = <<>>
                THEN [raises |-> "", val |-> <<>>]
                ELSE [raises |-> "",
                      val |-> <<[news_id |-> id, published_at_utc |-> published_at.val]>>]
      [] OTHER -> [raises |-> "RequestException", val |-> <<>>]

\* parse_article_html, lines 106-162, on the answer r to the page request and
\* the timestamp t of the article's metadata: what it raises ("" when it
\* returns) and what it returns (<<>> is None, <<record>> the dict of line 150)
ParseArticleRecord(r, id, t) ==
    CASE r \in {"non200", "no_body"} -> [raises |-> "", val |-> <<>>]
      [] r = "ok" ->
            LET published_at == ParseNhkDatetime(t)
            IN  IF published_at.raises # ""
                THEN [raises |-> published_at.raises, val |-> <<>>]
                ELSE [raises |-> "",
                      val |-> <<[news_id |-> id, published_at_utc |-> published_at.val]>>]
      [] OTHER -> [raises |-> "RequestException", val |-> <<>>]

\* main, lines 314-320: where the loop body goes with what parse_article_html did
LoopBranch(parsed) ==
    IF parsed.raises # "" THEN "raise"
    ELSE IF parsed.val = <<>> THEN "failed"
    ELSE "insert"

\* ------------------------------------------------------------ insert_article
\* A string is the sequence of its units; a field of the article dict is
\* <<>> (None) or <<s>> (the string s).
TitleMax == 50
TitleWithRubyMax == 500
OutlineMax == 1000
UrlMax == 200
ImageUrlMax == 200
M3u8UrlMax == 200

\* s[:n] taking one unit more
Slice_OneMore(s, n) == SubSeq(s, 1, IF Len(s) < n + 1 THEN Len(s) ELSE n + 1)

\* s[:n]
Slice(s, n) == SubSeq(s, 1, IF Len(s) < n THEN Len(s) ELSE n)

\* insert_article, lines 228-236: x[:n] if x else ''
Column(v, n) == IF v = <<>> \/ v[1] = <<>> THEN <<>> ELSE Slice(v[1], n)

\* insert_article, lines 226-238: the parameters of the INSERT; the columns
\* that are not cut are passed as they are
InsertArticleRow(article) ==
    [news_id           |-> article.news_id,
     title             |-> Column(article.title, TitleMax),
     title_with_ruby   |-> Column(article.title_with_ruby, TitleWithRubyMax),
     outline           |-> Column(article.outline, OutlineMax),
     outline_with_ruby |-> article.outline_with_ruby,
     url               |-> Column(article.url, UrlMax),
     body              |-> article.body,
     body_without_html |-> article.body_without_html,
     image_url         |-> Column(article.image_url, ImageUrlMax),
     m3u8url           |-> Column(article.m3u8_url, M3u8UrlMax),
     published_at_utc  |-> article.published_at_utc]

\* ------------------------------------------------------------- the HTML
\* An element is the sequence of the tokens of its content, as html.parser
\* reads them: the start and end tags of its descendants, nested, and the
\* strings between them, each a sequence of characters.
StartTag(tag) == [kind |-> "start", tag |-> tag, text |-> <<>>]
EndTag(tag) == [kind |-> "end", tag |-> tag, text |-> <<>>]
TextNode(str) == [kind |-> "text", tag |-> "", text |-> str]

\* rt.unwrap() in the place of rt.decompose(): the tags go, their content stays
DecomposeRt_Unwraps(toks, depth) ==
    SelectSeq(toks, LAMBDA t : t.tag # "rt")

\* lines 171-172 and 189-190: every rt element is removed with all it contains;
\* depth is the number of rt elements open at the head of toks
RECURSIVE DecomposeRt(_, _)
DecomposeRt(toks, depth) ==
    IF toks = <<>> THEN <<>>
    ELSE LET t == Head(toks)
         IN  IF t.kind = "start" /\ t.tag = "rt" THEN DecomposeRt(Tail(toks), depth + 1)
             ELSE IF t.kind = "end" /\ t.tag = "rt" THEN DecomposeRt(Tail(toks), depth - 1)
             ELSE IF depth > 0 THEN DecomposeRt(Tail(toks), depth)
             ELSE <<t>> \o DecomposeRt(Tail(toks), depth)

RECURSIVE LStrip(_)
LStrip(str) == IF str # <<>> /\ Head(str) = " " THEN LStrip(Tail(str)) ELSE str

RECURSIVE RStrip(_)
RStrip(str) ==
    IF str # <<>> /\ str[Len(str)] = " " THEN RStrip(SubSeq(str, 1, Len(str) - 1)) ELSE str

\* str.strip()
Strip(str) == RStrip(LStrip(str))

\* get_text(strip=True): every string stripped, the empty ones dropped, the
\* rest concatenated
RECURSIVE GetText(_)
GetText(toks) ==
    IF toks = <<>> THEN <<>>
    ELSE (IF Head(toks).kind = "text" THEN Strip(Head(toks).text) ELSE <<>>)
             \o GetText(Tail(toks))

\* The index of the end tag of the element whose content begins at j, depth
\* elements being open there
RECURSIVE ElementEnd(_, _, _)
ElementEnd(toks, j, depth) ==
    IF toks[j].kind = "start" THEN ElementEnd(toks, j + 1, depth + 1)
    ELSE IF toks[j].kind = "end"
    THEN (IF depth = 1 THEN j ELSE ElementEnd(toks, j + 1, depth - 1))
    ELSE ElementEnd(toks, j + 1, depth)

\* find_all(tag): the elements of that name, in document order, each as its content
RECURSIVE FindAllFrom(_, _, _)
FindAllFrom(toks, tag, i) ==
    IF i > Len(toks) THEN <<>>
    ELSE IF toks[i] = StartTag(tag)
    THEN <<SubSeq(toks, i + 1, ElementEnd(toks, i + 1, 1) - 1)>>
             \o FindAllFrom(toks, tag, i + 1)
    ELSE FindAllFrom(toks, tag, i + 1)

FindAll(toks, tag) == FindAllFrom(toks, tag, 1)

\* '\n'.join(lines) without the separator
RECURSIVE Join_NoSeparator(_)
Join_NoSeparator(lines) ==
    IF lines = <<>> THEN <<>> ELSE Head(lines) \o Join_NoSeparator(Tail(lines))

\* '\n'.join(lines)
RECURSIVE Join(_)
Join(lines) ==
    IF lines = <<>> THEN <<>>
    ELSE IF Tail(lines) = <<>> THEN Head(lines)
    ELSE Head(lines) \o <<"\n">> \o Join(Tail(lines))

\* extract_text_without_ruby, lines 165-180
ExtractTextWithoutRuby(element) ==
    LET clone == DecomposeRt(element, 0)
        paragraphs == FindAll(clone, "p")
        lines == SelectSeq([i \in 1..Len(paragraphs) |-> GetText(paragraphs[i])],
                           LAMBDA l : l # <<>>)
    IN  IF paragraphs # <<>> THEN Join(lines) ELSE GetText(clone)

\* extract_text_from_html, lines 183-192
ExtractTextFromHtml(html) ==
    IF html = <<>> THEN <<>> ELSE GetText(DecomposeRt(html, 0))

\* article_exists as it would be if the SELECT did not see the rows this
\* connection inserted and has not committed
ArticleExists_CommittedOnly(id) == id \in Range(store)

\* article_exists as it would be if the SELECT never matched a row
ArticleExists_Never(id) == FALSE

\* article_exists: the SELECT on the cursor sees the committed rows and the rows
\* this connection inserted in its open transaction
ArticleExists(id) == id \in Range(store \o txn)

\* ---------------------------------------------------------------- frames
args_vars == <<dry_run, start_date, end_date>>
pos_vars == <<target_dates, date_idx, art_idx, news_id>>
count_vars == <<total_articles, new_articles, skipped_articles, failed_articles>>
db_vars == <<conn, txn, store, db_statements>>
hist_vars == <<store0, prev_run, rerun, prev_failed>>
fn_vars == <<fn, fn_arg, fn_ret>>
voicevox_vars == <<engine_ready, engine_thread, speech>>
main_vars == <<pc, args_vars, authenticated, news_list, pos_vars, count_vars, db_vars,
               exc, exit_status, log, summary, http, last_response, hist_vars>>

\* ---------------------------------------------------------------- Init
\* No run of main has started: the state of a fresh process.
IdleMain ==
    /\ pc = "idle"
    /\ dry_run = FALSE
    /\ start_date = 0
    /\ end_date = 0
    /\ authenticated = FALSE
    /\ news_list = NoCatalog
    /\ target_dates = <<>>
    /\ date_idx = 0
    /\ art_idx = 0
    /\ news_id = ""
    /\ conn = "none"
    /\ txn = <<>>
    /\ store = <<>>
    /\ total_articles = 0
    /\ new_articles = 0
    /\ skipped_articles = 0
    /\ failed_articles = 0
    /\ exc = FALSE
    /\ exit_status = NoExit
    /\ log = <<>>
    /\ summary = <<>>
    /\ http = NoHttp
    /\ last_response = NoResponse
    /\ db_statements = NoStatements
    /\ store0 = <<>>
    /\ prev_run = NoPrev
    /\ rerun = FALSE
    /\ prev_failed = 0

\* deploy_voicevox.py: serve has not been called, no thread, no request.
NoThread == [pc |-> "", polls |-> 0, got200 |-> FALSE]
NoSpeech == [pc |-> "", waits |-> 0, observed |-> FALSE, engine_requests |-> 0,
             status |-> ""]

IdleVoicevox ==
    /\ engine_ready = FALSE
    /\ engine_thread = NoThread
    /\ speech = NoSpeech

Init ==
    /\ IdleMain
    /\ IdleVoicevox
    /\ fn = ""
    /\ fn_arg = <<>>
    /\ fn_ret = <<>>

\* ---------------------------------------------------------------- main
\* The run that ended was a real run that committed and printed its summary.
DoneRun ==
    /\ exit_status = 0
    /\ summary # <<>>
    /\ ~dry_run

\* A new process: every local of main is fresh; only the table persists.
FreshProcess ==
    /\ authenticated' = FALSE
    /\ news_list' = NoCatalog
    /\ target_dates' = <<>>
    /\ date_idx' = 0
    /\ art_idx' = 0
    /\ news_id' = ""
    /\ conn' = "none"
    /\ txn' = <<>>
    /\ total_articles' = 0
    /\ new_articles' = 0
    /\ skipped_articles' = 0
    /\ failed_articles' = 0
    /\ exc' = FALSE
    /\ log' = <<>>
    /\ summary' = <<>>
    /\ http' = NoHttp
    /\ last_response' = NoResponse
    /\ db_statements' = NoStatements
    /\ UNCHANGED store

\* main, lines 241-268: the argument parsing and the date range
ParseArgs(days, sd, ed, dry) ==
    /\ pc = "idle"
    /\ dry_run' = dry
    /\ IF days # NoArg /\ days # 0
       THEN /\ start_date' = Today - days
            /\ end_date' = Today
            /\ pc' = "auth"
            /\ exit_status' = NoExit
       ELSE IF sd # NoArg /\ ed # NoArg
       THEN /\ start_date' = sd
            /\ end_date' = ed
            /\ pc' = "auth"
            /\ exit_status' = NoExit
       ELSE /\ start_date' = 0
            /\ end_date' = 0
            /\ pc' = "exited"
            /\ exit_status' = 1
    /\ store0' = store
    /\ rerun' = FALSE
    /\ prev_failed' = 0
    /\ prev_run' = IF /\ pc' = "auth"
                      /\ ~dry
                      /\ prev_run.done
                      /\ prev_run.start_date = start_date'
                      /\ prev_run.end_date = end_date'
                   THEN prev_run
                   ELSE NoPrev
    /\ UNCHANGED <<authenticated, news_list, pos_vars, count_vars, db_vars, exc, log,
                   summary, http, last_response>>
    /\ UNCHANGED <<fn_vars, voicevox_vars>>

\* The process is gone: its memory is freed, the table stays.
ProcessEnd ==
    /\ pc = "exited"
    /\ pc' = "idle"
    /\ FreshProcess
    /\ dry_run' = FALSE
    /\ start_date' = 0
    /\ end_date' = 0
    /\ exit_status' = NoExit
    /\ prev_run' = IF DoneRun
                   THEN [done |-> TRUE, failed |-> failed_articles,
                         start_date |-> start_date, end_date |-> end_date,
                         list |-> news_list]
                   ELSE NoPrev
    /\ store0' = store
    /\ rerun' = FALSE
    /\ prev_failed' = 0
    /\ UNCHANGED <<fn_vars, voicevox_vars>>

\* An exception nothing catches: the traceback, exit status 1.
Uncaught ==
    /\ pc' = "exited"
    /\ exit_status' = 1

\* authenticate without the early return of lines 59-60: every call asks again
AuthenticateRequests_NoEarlyReturn == IF authenticated THEN 1 ELSE 1

\* authenticate called by get, lines 59-60 and 85: the requests it sends to the
\* authorization endpoint, none when the session is authenticated
AuthenticateRequests == IF authenticated THEN 0 ELSE 1

\* Authenticate setting _authenticated before it looks at the status (line 78
\* moved above line 77): a failed exchange leaves the flag set
Authenticate_FlagSetOnFailure(r) ==
    /\ pc = "auth"
    /\ ~authenticated
    /\ http' = [http EXCEPT !.auth = @ + 1]
    /\ last_response' = [url |-> "auth", status |-> r, json |-> ""]
    /\ authenticated' = TRUE
    /\ IF r = "200"
       THEN /\ pc' = "list"
            /\ UNCHANGED exit_status
       ELSE Uncaught
    /\ UNCHANGED <<args_vars, news_list, pos_vars, count_vars, db_vars, exc, log,
                   summary, hist_vars>>
    /\ UNCHANGED <<fn_vars, voicevox_vars>>

\* Authenticate without the test of response.status_code at line 77
Authenticate_AnyStatus(r) ==
    /\ pc = "auth"
    /\ ~authenticated
    /\ http' = [http EXCEPT !.auth = @ + 1]
    /\ last_response' = [url |-> "auth", status |-> r, json |-> ""]
    /\ IF r # "raises"
       THEN /\ authenticated' = TRUE
            /\ pc' = "list"
            /\ UNCHANGED exit_status
       ELSE /\ Uncaught
            /\ UNCHANGED authenticated
    /\ UNCHANGED <<args_vars, news_list, pos_vars, count_vars, db_vars, exc, log,
                   summary, hist_vars>>
    /\ UNCHANGED <<fn_vars, voicevox_vars>>

\* NHKAuthenticatedSession.authenticate, lines 57-81, called by the first get
Authenticate(r) ==
    /\ pc = "auth"
    /\ ~authenticated
    /\ http' = [http EXCEPT !.auth = @ + 1]
    /\ last_response' = [url |-> "auth", status |-> r, json |-> ""]
    /\ IF r = "200"
       THEN /\ authenticated' = TRUE
            /\ pc' = "list"
            /\ UNCHANGED exit_status
       ELSE /\ Uncaught
            /\ UNCHANGED authenticated
    /\ UNCHANGED <<args_vars, news_list, pos_vars, count_vars, db_vars, exc, log,
                   summary, hist_vars>>
    /\ UNCHANGED <<fn_vars, voicevox_vars>>

\* FetchNewsList without the empty-range return of lines 280-283
FetchNewsList_NoEmptyRangeReturn(r, c, shape) ==
    /\ pc = "list"
    /\ authenticated
    /\ http' = [http EXCEPT !.list = @ + 1, !.auth = @ + AuthenticateRequests]
    /\ prev_run' = NoPrev
    /\ IF r # "200"
       THEN /\ last_response' = [url |-> "list", status |-> r, json |-> ""]
            /\ Uncaught
            /\ UNCHANGED <<news_list, target_dates, rerun, prev_failed>>
       ELSE LET result == FetchNewsListResult(CatalogJson(c, shape))
            IN  /\ last_response' = [url |-> "list", status |-> r, json |-> result.type]
                /\ IF result.type # "dict"
                   THEN /\ Uncaught
                        /\ UNCHANGED <<news_list, target_dates, rerun, prev_failed>>
                   ELSE /\ news_list' = result.val[1]
                        /\ target_dates' = TargetDates(news_list', start_date, end_date)
                        /\ rerun' = (prev_run.done /\ prev_run.list = news_list')
                        /\ prev_failed' = IF rerun' THEN prev_run.failed ELSE 0
                        /\ pc' = "connect"
                        /\ UNCHANGED exit_status
    /\ UNCHANGED <<args_vars, authenticated, date_idx, art_idx, news_id, count_vars,
                   db_vars, exc, log, summary, store0>>
    /\ UNCHANGED <<fn_vars, voicevox_vars>>

\* fetch_news_list, lines 89-103, and main's date selection, lines 271-283
FetchNewsList(r, c, shape) ==
    /\ pc = "list"
    /\ authenticated
    /\ http' = [http EXCEPT !.list = @ + 1, !.auth = @ + AuthenticateRequests]
    /\ prev_run' = NoPrev
    /\ IF r # "200"
       THEN /\ last_response' = [url |-> "list", status |-> r, json |-> ""]
            /\ Uncaught
            /\ UNCHANGED <<news_list, target_dates, rerun, prev_failed>>
       ELSE LET result == FetchNewsListResult(CatalogJson(c, shape))
            IN  /\ last_response' = [url |-> "list", status |-> r, json |-> result.type]
                /\ IF result.type # "dict"
                   THEN \* news_list.keys() on a list: AttributeError
                        /\ Uncaught
                        /\ UNCHANGED <<news_list, target_dates, rerun, prev_failed>>
                   ELSE /\ news_list' = result.val[1]
                        /\ target_dates' = TargetDates(news_list', start_date, end_date)
                        /\ rerun' = (prev_run.done /\ prev_run.list = news_list')
                        /\ prev_failed' = IF rerun' THEN prev_run.failed ELSE 0
                        /\ IF target_dates' = <<>>
                           THEN /\ pc' = "exited"
                                /\ exit_status' = 0
                           ELSE /\ pc' = "connect"
                                /\ UNCHANGED exit_status
    /\ UNCHANGED <<args_vars, authenticated, date_idx, art_idx, news_id, count_vars,
                   db_vars, exc, log, summary, store0>>
    /\ UNCHANGED <<fn_vars, voicevox_vars>>

\* Connect without the test of args.dry_run at line 286
Connect_IgnoresDryRun(r) ==
    /\ pc = "connect"
    /\ IF r = "ok"
       THEN /\ conn' = "open"
            /\ pc' = "dates"
            /\ UNCHANGED exit_status
       ELSE /\ Uncaught
            /\ UNCHANGED conn
    /\ UNCHANGED <<args_vars, authenticated, news_list, pos_vars, count_vars, txn,
                   store, db_statements, exc, log, summary, http, last_response,
                   hist_vars>>
    /\ UNCHANGED <<fn_vars, voicevox_vars>>

\* main, lines 285-293: the connection (not in a dry run) and the counters
Connect(r) ==
    /\ pc = "connect"
    /\ IF dry_run
       THEN /\ pc' = "dates"
            /\ UNCHANGED <<conn, exit_status>>
       ELSE IF r = "ok"
       THEN /\ conn' = "open"
            /\ pc' = "dates"
            /\ UNCHANGED exit_status
       ELSE /\ Uncaught
            /\ UNCHANGED conn
    /\ UNCHANGED <<args_vars, authenticated, news_list, pos_vars, count_vars, txn,
                   store, db_statements, exc, log, summary, http, last_response, hist_vars>>
    /\ UNCHANGED <<fn_vars, voicevox_vars>>

\* main, line 296: for date_key in target_dates
NextDate ==
    /\ pc = "dates"
    /\ IF date_idx < Len(target_dates)
       THEN /\ date_idx' = date_idx + 1
            /\ art_idx' = 0
            /\ pc' = "articles"
       ELSE /\ pc' = IF dry_run THEN "finally" ELSE "commit"
            /\ UNCHANGED <<date_idx, art_idx>>
    /\ UNCHANGED <<args_vars, authenticated, news_list, target_dates, news_id,
                   count_vars, db_vars, exc, exit_status, log, summary, http,
                   last_response, hist_vars>>
    /\ UNCHANGED <<fn_vars, voicevox_vars>>

Articles == news_list[target_dates[date_idx]]

\* main, lines 300-303: for article_data in articles; the metadata read
NextArticle(meta) ==
    /\ pc = "articles"
    /\ IF art_idx < Len(Articles)
       THEN /\ art_idx' = art_idx + 1
            /\ IF meta = "ok"
               THEN /\ news_id' = Articles[art_idx + 1]
                    /\ total_articles' = total_articles + 1
                    /\ pc' = IF dry_run THEN "fetch" ELSE "check"
                    /\ UNCHANGED exc
               ELSE \* a title that is no string: line 302 raises
                    /\ exc' = TRUE
                    /\ pc' = "finally"
                    /\ UNCHANGED <<news_id, total_articles>>
       ELSE /\ pc' = "dates"
            /\ UNCHANGED <<art_idx, news_id, total_articles, exc>>
    /\ UNCHANGED <<args_vars, authenticated, news_list, target_dates, date_idx,
                   new_articles, skipped_articles, failed_articles, db_vars,
                   exit_status, log, summary, http, last_response, hist_vars>>
    /\ UNCHANGED <<fn_vars, voicevox_vars>>

\* CheckExists without the continue of line 310
CheckExists_NoContinue(r) ==
    /\ pc = "check"
    /\ db_statements' = [db_statements EXCEPT !.select = @ + 1]
    /\ IF r # "ok"
       THEN /\ exc' = TRUE
            /\ pc' = "finally"
            /\ UNCHANGED <<skipped_articles, log>>
       ELSE IF ArticleExists(news_id)
       THEN /\ skipped_articles' = skipped_articles + 1
            /\ log' = Append(log, <<news_id, "SKIP">>)
            /\ pc' = "fetch"
            /\ UNCHANGED exc
       ELSE /\ pc' = "fetch"
            /\ UNCHANGED <<skipped_articles, log, exc>>
    /\ UNCHANGED <<args_vars, authenticated, news_list, pos_vars, total_articles,
                   new_articles, failed_articles, conn, txn, store, exit_status,
                   summary, http, last_response, hist_vars>>
    /\ UNCHANGED <<fn_vars, voicevox_vars>>

\* main, lines 306-310: the existence check of a real run
CheckExists(r) ==
    /\ pc = "check"
    /\ db_statements' = [db_statements EXCEPT !.select = @ + 1]
    /\ IF r # "ok"
       THEN /\ exc' = TRUE
            /\ pc' = "finally"
            /\ UNCHANGED <<skipped_articles, log>>
       ELSE IF ArticleExists(news_id)
       THEN /\ skipped_articles' = skipped_articles + 1
            /\ log' = Append(log, <<news_id, "SKIP">>)
            /\ pc' = "articles"
            /\ UNCHANGED exc
       ELSE /\ pc' = "fetch"
            /\ UNCHANGED <<skipped_articles, log, exc>>
    /\ UNCHANGED <<args_vars, authenticated, news_list, pos_vars, total_articles,
                   new_articles, failed_articles, conn, txn, store, exit_status,
                   summary, http, last_response, hist_vars>>
    /\ UNCHANGED <<fn_vars, voicevox_vars>>

\* ParseArticleHtml without the count of line 317
ParseArticleHtml_FailureNotCounted(r) ==
    /\ pc = "fetch"
    /\ authenticated
    /\ http' = [http EXCEPT !.article = @ + 1, !.auth = @ + AuthenticateRequests]
    /\ last_response' = [url |-> "article", status |-> r, json |-> ""]
    /\ \E branch \in {LoopBranch(ParseArticleRecord(r, news_id, t)) :
                          t \in IF r = "ok" THEN ArticleTimes ELSE {<<>>}} :
            CASE branch = "insert" ->
                  /\ pc' = "insert"
                  /\ UNCHANGED <<log, exc>>
             [] branch = "failed" ->
                  /\ log' = Append(log, <<news_id, "WARN">>)
                  /\ pc' = "articles"
                  /\ UNCHANGED exc
             [] OTHER ->
                  /\ exc' = TRUE
                  /\ pc' = "finally"
                  /\ UNCHANGED log
    /\ UNCHANGED <<args_vars, authenticated, news_list, pos_vars, count_vars, db_vars,
                   exit_status, summary, hist_vars>>
    /\ UNCHANGED <<fn_vars, voicevox_vars>>

\* parse_article_html, lines 106-162, and main's lines 314-318
ParseArticleHtml(r) ==
    /\ pc = "fetch"
    /\ authenticated
    /\ http' = [http EXCEPT !.article = @ + 1, !.auth = @ + AuthenticateRequests]
    /\ last_response' = [url |-> "article", status |-> r, json |-> ""]
    /\ \E branch \in {LoopBranch(ParseArticleRecord(r, news_id, t)) :
                          t \in IF r = "ok" THEN ArticleTimes ELSE {<<>>}} :
            CASE branch = "insert" ->
                  /\ pc' = "insert"
                  /\ UNCHANGED <<failed_articles, log, exc>>
             [] branch = "failed" ->
                  /\ failed_articles' = failed_articles + 1
                  /\ log' = Append(log, <<news_id, "WARN">>)
                  /\ pc' = "articles"
                  /\ UNCHANGED exc
             [] OTHER ->
                  /\ exc' = TRUE
                  /\ pc' = "finally"
                  /\ UNCHANGED <<failed_articles, log>>
    /\ UNCHANGED <<args_vars, authenticated, news_list, pos_vars, total_articles,
                   new_articles, skipped_articles, db_vars, exit_status, summary,
                   hist_vars>>
    /\ UNCHANGED <<fn_vars, voicevox_vars>>

\* InsertArticle on a connection in autocommit mode: the row is committed at once
InsertArticle_Autocommit(r) ==
    /\ pc = "insert"
    /\ IF dry_run
       THEN /\ log' = Append(log, <<news_id, "DRY">>)
            /\ new_articles' = new_articles + 1
            /\ pc' = "articles"
            /\ UNCHANGED <<store, db_statements, exc>>
       ELSE /\ db_statements' = [db_statements EXCEPT !.insert = @ + 1]
            /\ IF r = "ok"
               THEN /\ store' = Append(store, news_id)
                    /\ new_articles' = new_articles + 1
                    /\ log' = Append(log, <<news_id, "OK">>)
                    /\ pc' = "articles"
                    /\ UNCHANGED exc
               ELSE /\ exc' = TRUE
                    /\ pc' = "finally"
                    /\ UNCHANGED <<store, new_articles, log>>
    /\ UNCHANGED <<args_vars, authenticated, news_list, pos_vars, total_articles,
                   skipped_articles, failed_articles, conn, txn, exit_status,
                   summary, http, last_response, hist_vars>>
    /\ UNCHANGED <<fn_vars, voicevox_vars>>

\* main, lines 320-326: the report of a dry run, the insert of a real run
InsertArticle(r) ==
    /\ pc = "insert"
    /\ IF dry_run
       THEN /\ log' = Append(log, <<news_id, "DRY">>)
            /\ new_articles' = new_articles + 1
            /\ pc' = "articles"
            /\ UNCHANGED <<txn, db_statements, exc>>
       ELSE /\ db_statements' = [db_statements EXCEPT !.insert = @ + 1]
            /\ IF r = "ok"
               THEN /\ txn' = Append(txn, news_id)
                    /\ new_articles' = new_articles + 1
                    /\ log' = Append(log, <<news_id, "OK">>)
                    /\ pc' = "articles"
                    /\ UNCHANGED exc
               ELSE /\ exc' = TRUE
                    /\ pc' = "finally"
                    /\ UNCHANGED <<txn, new_articles, log>>
    /\ UNCHANGED <<args_vars, authenticated, news_list, pos_vars, total_articles,
                   skipped_articles, failed_articles, conn, store, exit_status,
                   summary, http, last_response, hist_vars>>
    /\ UNCHANGED <<fn_vars, voicevox_vars>>

\* Commit as it would be if the INSERT of line 219 were a REPLACE of the table
Commit_ReplacesTable(r) ==
    /\ pc = "commit"
    /\ db_statements' = [db_statements EXCEPT !.commit = @ + 1]
    /\ IF r = "ok"
       THEN /\ store' = txn
            /\ txn' = <<>>
            /\ UNCHANGED exc
       ELSE /\ exc' = TRUE
            /\ UNCHANGED <<store, txn>>
    /\ pc' = "finally"
    /\ UNCHANGED <<args_vars, authenticated, news_list, pos_vars, count_vars, conn,
                   exit_status, log, summary, http, last_response, hist_vars>>
    /\ UNCHANGED <<fn_vars, voicevox_vars>>

\* main, lines 328-329: the commit after the loops of a real run
Commit(r) ==
    /\ pc = "commit"
    /\ db_statements' = [db_statements EXCEPT !.commit = @ + 1]
    /\ IF r = "ok"
       THEN /\ store' = store \o txn
            /\ txn' = <<>>
            /\ UNCHANGED exc
       ELSE /\ exc' = TRUE
            /\ UNCHANGED <<store, txn>>
    /\ pc' = "finally"
    /\ UNCHANGED <<args_vars, authenticated, news_list, pos_vars, count_vars, conn,
                   exit_status, log, summary, http, last_response, hist_vars>>
    /\ UNCHANGED <<fn_vars, voicevox_vars>>

\* Finally as a plain statement after the loop, without try/finally: an
\* exception passes it by and the connection stays open
Finally_SkippedByException ==
    /\ pc = "finally"
    /\ IF dry_run \/ exc
       THEN UNCHANGED <<conn, txn>>
       ELSE /\ conn' = "closed"
            /\ txn' = <<>>
    /\ IF exc
       THEN Uncaught
       ELSE /\ pc' = "summary"
            /\ UNCHANGED exit_status
    /\ UNCHANGED <<args_vars, authenticated, news_list, pos_vars, count_vars, store,
                   db_statements, exc, log, summary, http, last_response, hist_vars>>
    /\ UNCHANGED <<fn_vars, voicevox_vars>>

\* main, lines 331-334: the finally block; closing rolls back what is uncommitted
Finally ==
    /\ pc = "finally"
    /\ IF dry_run
       THEN UNCHANGED <<conn, txn>>
       ELSE /\ conn' = "closed"
            /\ txn' = <<>>
    /\ IF exc
       THEN Uncaught
       ELSE /\ pc' = "summary"
            /\ UNCHANGED exit_status
    /\ UNCHANGED <<args_vars, authenticated, news_list, pos_vars, count_vars, store,
                   db_statements, exc, log, summary, http, last_response, hist_vars>>
    /\ UNCHANGED <<fn_vars, voicevox_vars>>

\* main, lines 336-343: the summary, then the process ends with status 0
Summary ==
    /\ pc = "summary"
    /\ summary' = <<total_articles, new_articles, skipped_articles, failed_articles>>
    /\ pc' = "exited"
    /\ exit_status' = 0
    /\ UNCHANGED <<args_vars, authenticated, news_list, pos_vars, count_vars, db_vars,
                   exc, log, http, last_response, hist_vars>>
    /\ UNCHANGED <<fn_vars, voicevox_vars>>

\* The rows a real run inserts, in order, when its articles and the answers to
\* its page requests are those of the log lines `entries` and `seen` are the
\* news_ids its existence check finds: main's loop body, lines 300-326.
RECURSIVE RealRunInserts(_, _)
RealRunInserts(entries, seen) ==
    IF entries = <<>> THEN <<>>
    ELSE LET id == Head(entries)[1]
             fetched == Head(entries)[2] \in {"OK", "DRY"}
         IN  IF id \in seen
             THEN RealRunInserts(Tail(entries), seen)
             ELSE IF fetched
             THEN <<id>> \o RealRunInserts(Tail(entries), seen \cup {id})
             ELSE RealRunInserts(Tail(entries), seen)

DayArgs == {NoArg} \cup (0..MaxDays)
DateArgs == {NoArg} \cup Dates
HttpOutcomes == {"200", "non200", "raises"}
PageOutcomes == {"ok", "non200", "no_body", "raises"}
DbOutcomes == {"ok", "raises"}
Shapes == {"mapping", "wrapped", "empty_list"}
Metas == {"ok", "malformed"}

Next ==
    \/ \E days \in DayArgs, sd \in DateArgs, ed \in DateArgs, dry \in BOOLEAN :
          ParseArgs(days, sd, ed, dry)
    \/ \E r \in HttpOutcomes : Authenticate(r)
    \/ \E r \in HttpOutcomes \ {"200"} : FetchNewsList(r, NoCatalog, "mapping")
    \/ FetchNewsList("200", NoCatalog, "empty_list")
    \/ \E c \in Catalogs, shape \in Shapes \ {"empty_list"} : FetchNewsList("200", c, shape)
    \/ \E r \in DbOutcomes : Connect(r)
    \/ NextDate
    \/ \E meta \in Metas : NextArticle(meta)
    \/ \E r \in DbOutcomes : CheckExists(r)
    \/ \E r \in PageOutcomes : ParseArticleHtml(r)
    \/ \E r \in DbOutcomes : InsertArticle(r)
    \/ \E r \in DbOutcomes : Commit(r)
    \/ Finally
    \/ Summary
    \/ ProcessEnd

Spec == Init /\ [][Next]_vars

\* ---------------------------------------------------------------- properties
NoDuplicates(s) == \A i, j \in 1..Len(s) : s[i] = s[j] => i = j

\* The news_ids of the log lines with the given tag, in order.
RECURSIVE Tagged(_, _)
Tagged(l, tag) ==
    IF l = <<>> THEN <<>>
    ELSE (IF Head(l)[2] = tag THEN <<Head(l)[1]>> ELSE <<>>) \o Tagged(Tail(l), tag)

\* The number of articles under the dates of the range.
RECURSIVE CountArticles(_, _)
CountArticles(list, dates) ==
    IF dates = <<>> THEN 0
    ELSE Len(list[Head(dates)]) + CountArticles(list, Tail(dates))

\* C1: in a dry run no database connection is opened, no existence check, insert
\* or commit is issued, and the table is what it was when the run started.
C1_DryRunNeverTouchesStore ==
    dry_run =>
        /\ conn = "none"
        /\ db_statements = NoStatements
        /\ txn = <<>>
        /\ store = store0

\* A dry run that ended with its summary after it reported an article of a
\* non-empty table's catalog as new.
C1_Witness ==
    /\ dry_run
    /\ pc = "exited"
    /\ summary # <<>>
    /\ new_articles >= 1
    /\ store # <<>>

\* C2: the table never holds two rows with the same news_id, not even among the
\* rows a run has inserted and not yet committed; a real run reaches its insert
\* only for a news_id that is in neither.
C2_NewsIdUnique ==
    /\ NoDuplicates(store \o txn)
    /\ (pc = "insert" /\ ~dry_run) => news_id \notin Range(store \o txn)

\* A real run whose catalog listed one news_id twice: inserted once, then skipped.
C2_Witness ==
    /\ ~dry_run
    /\ pc = "exited"
    /\ exit_status = 0
    /\ log = <<<<"k1", "OK">>, <<"k1", "SKIP">>>>
    /\ store = <<"k1">>

\* C4: the committed table is the table as the run found it, or, once the one
\* commit after the loops has been issued, that table followed by every row the
\* run inserted; a run that ends with an exception leaves the table as it was.
C4_CommitAllOrNothing ==
    /\ \/ store = store0
       \/ /\ store = store0 \o Tagged(log, "OK")
          /\ pc \in {"finally", "summary", "exited"}
          /\ db_statements.commit = 1
          /\ Len(log) = CountArticles(news_list, target_dates)
    /\ db_statements.commit <= 1
    /\ (pc = "exited" /\ exit_status = 1) => store = store0

\* A real run that inserted a row and then ended with an exception.
C4_Witness ==
    /\ ~dry_run
    /\ pc = "exited"
    /\ exit_status = 1
    /\ new_articles >= 1
    /\ store = store0

\* C8: whenever the loop is between two articles, and in the summary,
\* total = new + skipped + failed, each counter being the number of log lines of
\* its kind; one date with one absent article whose page is fetched gives 1/1/0/0.
C8_CountersAddUp ==
    /\ (pc \in {"dates", "articles", "commit", "summary"} \/ (pc = "finally" /\ ~exc)) =>
          /\ total_articles = new_articles + skipped_articles + failed_articles
          /\ total_articles = Len(log)
          /\ new_articles = Len(Tagged(log, "OK")) + Len(Tagged(log, "DRY"))
          /\ skipped_articles = Len(Tagged(log, "SKIP"))
          /\ failed_articles = Len(Tagged(log, "WARN"))
    /\ summary # <<>> =>
          /\ summary[1] = summary[2] + summary[3] + summary[4]
          /\ summary = <<total_articles, new_articles, skipped_articles, failed_articles>>
          /\ summary[1] = CountArticles(news_list, target_dates)
    /\ (/\ summary # <<>>
        /\ CountArticles(news_list, target_dates) = 1
        /\ last_response = [url |-> "article", status |-> "ok", json |-> ""]) =>
          summary = <<1, 1, 0, 0>>

\* The summary 1/1/0/0 of a real run over one article.
C8_Witness ==
    /\ ~dry_run
    /\ summary = <<1, 1, 0, 0>>
    /\ Len(target_dates) = 1

\* C3 (as stated): a real run that repeats the range and the catalog of the real
\* run before it, which committed, inserts nothing and leaves the table unchanged.
C3_SecondRunInsertsNothing ==
    rerun => (new_articles = 0 /\ store = store0)

\* C3 (amended): such a second run re-inserts nothing: every row it inserts is a
\* news_id the table did not hold after the first run, it inserts at most as many
\* rows as the first run counted as failed, and none when that count was zero.
C3_SecondRunInsertsOnlyFormerFailures ==
    rerun =>
        /\ new_articles <= prev_failed
        /\ Len(store) <= Len(store0) + prev_failed
        /\ \A id \in Range(Tagged(log, "OK")) : id \notin Range(store0)
        /\ prev_failed = 0 => (new_articles = 0 /\ store = store0)

\* A second run over two articles that skips the one the first run inserted and
\* inserts the one the first run counted as failed.
C3_Witness ==
    /\ rerun
    /\ summary # <<>>
    /\ prev_failed = 1
    /\ skipped_articles = 1
    /\ new_articles = 1

\* C5: no exception leaves an iteration of the article loop: when an exception
\* is propagating out of the try block, every article of the range has had its
\* outcome logged (only the commit after the loops can have raised it).
C5_NoIterationEndsTheRun ==
    exc => Len(log) = CountArticles(news_list, target_dates)

\* C6: after a non-200 answer of the authorization or of the catalog endpoint the
\* process has ended with status 1: one authorization request, at most one
\* catalog request, no article request, no connection, no statement, no write.
C6_AuthOrCatalogFailureAborts ==
    (last_response.status = "non200" /\ last_response.url \in {"auth", "list"}) =>
        /\ pc = "exited"
        /\ exit_status = 1
        /\ http.auth = 1
        /\ http.list = (IF last_response.url = "list" THEN 1 ELSE 0)
        /\ http.article = 0
        /\ conn = "none"
        /\ db_statements = NoStatements
        /\ txn = <<>>
        /\ store = store0
        /\ summary = <<>>

\* A run ended by a non-200 answer of the catalog endpoint.
C6_Witness ==
    /\ last_response = [url |-> "list", status |-> "non200", json |-> ""]
    /\ pc = "exited"
    /\ exit_status = 1

\* C7: in a real run an article page is requested only after the existence check
\* of that article was issued and found no row, and the check that finds a row
\* returns to the loop with skipped + 1 and no request, insert or failed count.
C7_ExistingArticleSkippedUnfetched ==
    [][/\ (~dry_run /\ http'.article = http.article + 1) =>
              /\ pc = "fetch"
              /\ db_statements.select = total_articles
              /\ http.article < total_articles
              /\ news_id \notin Range(store \o txn)
       /\ (pc = "check" /\ pc' # "finally" /\ news_id \in Range(store \o txn)) =>
              /\ pc' = "articles"
              /\ http' = http
              /\ txn' = txn
              /\ store' = store
              /\ db_statements'.insert = db_statements.insert
              /\ skipped_articles' = skipped_articles + 1
              /\ failed_articles' = failed_articles
              /\ new_articles' = new_articles
      ]_vars

\* A real run has skipped an article of the table without any page request.
C7_Witness ==
    /\ ~dry_run
    /\ pc = "articles"
    /\ skipped_articles = 1
    /\ failed_articles = 0
    /\ http.article = 0
    /\ news_id \in Range(store)

\* C9: the articles a dry run reports as "would insert", and their count, are the
\* rows a real run over the same table, articles and page answers inserts.
C9_DryRunReportsRealCommit ==
    (dry_run /\ summary # <<>>) =>
        /\ Range(Tagged(log, "DRY")) = Range(RealRunInserts(log, Range(store)))
        /\ new_articles = Len(RealRunInserts(log, Range(store)))

C11_EveryRunPrintsSummary ==
    (pc = "exited" /\ http.auth >= 1) => summary # <<>>

\* ---------------------------------------------------------------- C12
\* C12: authenticate is idempotent: a run sends at most one request to the
\* authorization endpoint, an authenticated session has sent exactly one however
\* many pages it got since, and a step of the run never takes the state back.
C12_AuthenticateIdempotent ==
    /\ http.auth <= 1
    /\ authenticated => http.auth = 1
    /\ (http.list + http.article >= 1) => authenticated

C12_Witness ==
    /\ authenticated
    /\ http.auth = 1
    /\ http.list = 1
    /\ http.article >= 2

\* ---------------------------------------------------------------- C13
\* fetch_news_list called on its own, once for each shape of the same catalog,
\* followed by the date filter of main.
InitCatalog ==
    /\ IdleMain
    /\ IdleVoicevox
    /\ fn = "call"
    /\ fn_arg \in [catalog : Catalogs, start_date : 0..MaxDate, end_date : Dates]
    /\ fn_ret = <<>>

\* fetch_news_list, lines 89-103, on a 200 response, and main's lines 274-275
CallFetchNewsList ==
    /\ fn = "call"
    /\ fn' = "return"
    /\ fn_ret' = [shape \in {"mapping", "wrapped"} |->
                    LET result == FetchNewsListResult(CatalogJson(fn_arg.catalog, shape))
                    IN  [news_list |-> result,
                         target_dates |->
                            IF result.type = "dict"
                            THEN <<TargetDates(result.val[1], fn_arg.start_date,
                                               fn_arg.end_date)>>
                            ELSE <<>>]]
    /\ UNCHANGED <<fn_arg, main_vars, voicevox_vars>>

NextCatalog == CallFetchNewsList

SpecCatalog == InitCatalog /\ [][NextCatalog]_vars

\* C13: for every date-keyed mapping M, fetch_news_list returns M both for the
\* response M and for the response [M], and the dates main selects from the
\* result, hence everything the run does with it, are the same for both.
C13_BothShapesSameCatalog ==
    fn = "return" =>
        /\ fn_ret["mapping"].news_list = [type |-> "dict", val |-> <<fn_arg.catalog>>]
        /\ fn_ret["wrapped"].news_list = [type |-> "dict", val |-> <<fn_arg.catalog>>]
        /\ fn_ret["wrapped"] = fn_ret["mapping"]
        /\ fn_ret["mapping"].target_dates # <<>>

C13_Witness ==
    /\ fn = "return"
    /\ DOMAIN fn_arg.catalog = Dates
    /\ fn_ret["wrapped"].news_list.val[1] = fn_arg.catalog
    /\ fn_ret["wrapped"].target_dates = <<<<MaxDate>>>>

\* ---------------------------------------------------------------- C16
TimeYears == {1, 1900, 2000, 2024, 2025}
TimeHours == {0, 5, 8, 9, 10, 19, 23, 24}
TimeMinutes == {0, 30, 59}
TimeSeconds == {0, 59}

\* The timestamps parse_nhk_datetime is called on: the texts in the format,
\* days and hours out of range among them, the empty string and another text.
NewsTimes ==
    {<<>>, <<0>>}
        \cup {<<y, m, d, h, mi, s>> : y \in TimeYears, m \in 1..12, d \in 1..31,
                                     h \in TimeHours, mi \in TimeMinutes,
                                     s \in TimeSeconds}

InitTime ==
    /\ IdleMain
    /\ IdleVoicevox
    /\ fn = "call"
    /\ fn_arg \in NewsTimes
    /\ fn_ret = <<>>

\* parse_nhk_datetime, lines 195-207
CallParseNhkDatetime ==
    /\ fn = "call"
    /\ fn' = "return"
    /\ fn_ret' = ParseNhkDatetime(fn_arg)
    /\ UNCHANGED <<fn_arg, main_vars, voicevox_vars>>

NextTime == CallParseNhkDatetime

SpecTime == InitTime /\ [][NextTime]_vars

\* The days from 0001-01-01 to the day of t, that day counted, and the seconds
\* of t since midnight: the proleptic Gregorian ordinal.
Ordinal(t) ==
    LET y == t[1] - 1
        before == <<0, 31, 59, 90, 120, 151, 181, 212, 243, 273, 304, 334>>
    IN  365 * y + (y \div 4) - (y \div 100) + (y \div 400)
            + before[t[2]] + (IF t[2] > 2 /\ IsLeap(t[1]) THEN 1 ELSE 0) + t[3]

SecondOfDay(t) == t[4] * 3600 + t[5] * 60 + t[6]

\* u is a date and time, and the instant n hours before t
IsHoursBefore(u, t, n) ==
    /\ Len(u) = 6
    /\ u[1] >= 1
    /\ u[2] \in 1..12
    /\ u[3] >= 1
    /\ u[3] <= LET before == <<0, 31, 59, 90, 120, 151, 181, 212, 243, 273, 304, 334, 365>>
               IN  before[u[2] + 1] - before[u[2]]
                       + (IF u[2] = 2 /\ IsLeap(u[1]) THEN 1 ELSE 0)
    /\ u[4] \in 0..23
    /\ u[5] \in 0..59
    /\ u[6] \in 0..59
    /\ (Ordinal(t) - Ordinal(u)) * 86400 + SecondOfDay(t) - SecondOfDay(u) = n * 3600

\* C16: parse_nhk_datetime maps every well-formed timestamp to the instant
\* exactly 9 hours earlier, carrying over the day, month and year boundary.
C16_EveryTimestampNineHoursEarlier ==
    (fn = "return" /\ fn_arg # <<>> /\ WellFormedTime(fn_arg)) =>
        /\ fn_ret.raises = ""
        /\ fn_ret.val # <<>>
        /\ IsHoursBefore(fn_ret.val[1], fn_arg, 9)

\* C16 as the code has it: the same for every well-formed timestamp from
\* 0001-01-01 09:00:00 on ('2025-12-03 19:30:00' gives 2025-12-03 10:30:00,
\* '2024-03-01 05:00:00' gives 2024-02-29 20:00:00, '2025-01-01 05:00:00'
\* gives 2024-12-31 20:00:00); for the nine hours before it, where the result
\* would fall before year 1, the call raises OverflowError and returns nothing.
C16_NineHoursEarlierFromYearOne ==
    (fn = "return" /\ fn_arg # <<>> /\ WellFormedTime(fn_arg)) =>
        IF Ordinal(fn_arg) = 1 /\ SecondOfDay(fn_arg) < 9 * 3600
        THEN fn_ret = [raises |-> "OverflowError", val |-> <<>>]
        ELSE /\ fn_ret.raises = ""
             /\ fn_ret.val # <<>>
             /\ IsHoursBefore(fn_ret.val[1], fn_arg, 9)
             /\ fn_arg = <<2025, 12, 3, 19, 30, 0>>
                    => fn_ret.val[1] = <<2025, 12, 3, 10, 30, 0>>
             /\ fn_arg = <<2024, 3, 1, 5, 0, 0>>
                    => fn_ret.val[1] = <<2024, 2, 29, 20, 0, 0>>
             /\ fn_arg = <<1900, 3, 1, 5, 0, 0>>
                    => fn_ret.val[1] = <<1900, 2, 28, 20, 0, 0>>
             /\ fn_arg = <<2025, 1, 1, 5, 0, 0>>
                    => fn_ret.val[1] = <<2024, 12, 31, 20, 0, 0>>

C16_Witness ==
    /\ fn = "return"
    /\ fn_arg = <<2024, 3, 1, 5, 0, 0>>
    /\ fn_ret.val = <<<<2024, 2, 29, 20, 0, 0>>>>

\* ---------------------------------------------------------------- C17
\* One iteration of main's loop on one article, from the page request on.
InitArticle ==
    /\ IdleMain
    /\ IdleVoicevox
    /\ fn = "call"
    /\ fn_arg \in [r : PageOutcomes, news_id : NewsIds, news_time : ArticleTimes]
    /\ fn_ret = <<>>

\* main, line 314: parsed = parse_article_html(session, news_id, article_data)
CallParseArticleHtml ==
    /\ fn = "call"
    /\ fn' = "return"
    /\ fn_ret' = [parsed |-> ParseArticleRecord(fn_arg.r, fn_arg.news_id, fn_arg.news_time),
                  branch |-> "", new_articles |-> 0, failed_articles |-> 0]
    /\ UNCHANGED <<fn_arg, main_vars, voicevox_vars>>

\* main, lines 316-326: the failure counted, or the record inserted (reported,
\* in a dry run) and counted as new
CountArticle ==
    /\ fn = "return"
    /\ fn' = "counted"
    /\ LET branch == LoopBranch(fn_ret.parsed)
       IN  fn_ret' = [fn_ret EXCEPT !.branch = branch,
                                    !.new_articles = IF branch = "insert" THEN 1 ELSE 0,
                                    !.failed_articles = IF branch = "failed" THEN 1 ELSE 0]
    /\ UNCHANGED <<fn_arg, main_vars, voicevox_vars>>

NextArticleAlone == CallParseArticleHtml \/ CountArticle

SpecArticle == InitArticle /\ [][NextArticleAlone]_vars

\* C17: an article whose page is fetched and whose timestamp is empty or not a
\* date and time in the format is not a failure: parse_article_html raises
\* nothing and returns a record whose published_at_utc is null, and the loop
\* inserts it and counts it as new, not as failed.
C17_BadTimestampStillInserted ==
    (/\ fn # "call"
     /\ fn_arg.r = "ok"
     /\ (fn_arg.news_time = <<>> \/ ~WellFormedTime(fn_arg.news_time))) =>
        /\ fn_ret.parsed.raises = ""
        /\ fn_ret.parsed.val # <<>>
        /\ fn_ret.parsed.val[1].news_id = fn_arg.news_id
        /\ fn_ret.parsed.val[1].published_at_utc = <<>>
        /\ fn = "counted" =>
                /\ fn_ret.branch = "insert"
                /\ fn_ret.new_articles = 1
                /\ fn_ret.failed_articles = 0

C17_Witness ==
    /\ fn = "counted"
    /\ fn_arg.r = "ok"
    /\ fn_arg.news_time = <<2025, 2, 30, 10, 0, 0>>
    /\ fn_ret.parsed.val[1].published_at_utc = <<>>
    /\ fn_ret.new_articles = 1

\* ---------------------------------------------------------------- C18
\* The string of n units 1, 2, ..., n
Str(n) == [i \in 1..n |-> i]

\* The values of a field cut at n: None, the empty string, a string of
\* exactly n units and one of n + 1
FieldValues(n) == {<<>>, <<Str(0)>>, <<Str(n)>>, <<Str(n + 1)>>}

ArticleDicts ==
    [news_id : {"k1"},
     title : FieldValues(TitleMax),
     title_with_ruby : FieldValues(TitleWithRubyMax),
     outline : FieldValues(OutlineMax),
     outline_with_ruby : {<<Str(3)>>},
     url : FieldValues(UrlMax),
     body : {<<Str(3)>>},
     body_without_html : {<<Str(2)>>},
     image_url : FieldValues(ImageUrlMax),
     m3u8_url : FieldValues(M3u8UrlMax),
     published_at_utc : {<<>>}]

InitInsert ==
    /\ IdleMain
    /\ IdleVoicevox
    /\ fn = "call"
    /\ fn_arg \in ArticleDicts
    /\ fn_ret = <<>>

\* insert_article, lines 216-238: the row handed to cursor.execute
CallInsertArticle ==
    /\ fn = "call"
    /\ fn' = "return"
    /\ fn_ret' = InsertArticleRow(fn_arg)
    /\ UNCHANGED <<fn_arg, main_vars, voicevox_vars>>

NextInsert == CallInsertArticle

SpecInsert == InitInsert /\ [][NextInsert]_vars

\* stored is the first min(len, n) units of the field v, the empty string
\* when v is None
IsFirstUnits(stored, v, n) ==
    LET len == IF v = <<>> THEN 0 ELSE Len(v[1])
    IN  /\ Len(stored) = (IF len < n THEN len ELSE n)
        /\ \A i \in 1..Len(stored) : stored[i] = v[1][i]

\* C18: insert_article stores the first min(len, 50) units of the title, the
\* first min(len, 500) of title_with_ruby, min(len, 1000) of outline and
\* min(len, 200) of url, image_url and the audio URL; a longer title is stored
\* with exactly 50 units, and an empty or null value as the empty string.
C18_FieldsCutToTheirMaximum ==
    fn = "return" =>
        /\ IsFirstUnits(fn_ret.title, fn_arg.title, 50)
        /\ IsFirstUnits(fn_ret.title_with_ruby, fn_arg.title_with_ruby, 500)
        /\ IsFirstUnits(fn_ret.outline, fn_arg.outline, 1000)
        /\ IsFirstUnits(fn_ret.url, fn_arg.url, 200)
        /\ IsFirstUnits(fn_ret.image_url, fn_arg.image_url, 200)
        /\ IsFirstUnits(fn_ret.m3u8url, fn_arg.m3u8_url, 200)
        /\ (fn_arg.title # <<>> /\ Len(fn_arg.title[1]) > 50) => Len(fn_ret.title) = 50
        /\ fn_arg.title \in {<<>>, <<<<>>>>} => fn_ret.title = <<>>
        /\ fn_ret.news_id = fn_arg.news_id

C18_Witness ==
    /\ fn = "return"
    /\ fn_arg.title # <<>>
    /\ Len(fn_arg.title[1]) = 51
    /\ Len(fn_ret.title) = 50
    /\ fn_arg.url = <<>>
    /\ fn_ret.url = <<>>
    /\ fn_arg.outline # <<>>
    /\ Len(fn_arg.outline[1]) = 1001
    /\ Len(fn_ret.outline) = 1000

\* ---------------------------------------------------------------- C19
\* The strings of a page: outside the rt elements, with and without spaces
\* around the characters; inside them, the reading
BaseTexts == {<<"a">>, <<"b">>, <<" ">>, <<" ", "a", " ">>}
RtTexts == {<<"r">>}

\* The elements open after the tokens toks, the innermost last
RECURSIVE OpenElements(_)
OpenElements(toks) ==
    IF toks = <<>> THEN <<>>
    ELSE LET before == OpenElements(SubSeq(toks, 1, Len(toks) - 1))
             t      == toks[Len(toks)]
         IN  CASE t.kind = "start" -> Append(before, t.tag)
               [] t.kind = "end"   -> SubSeq(before, 1, Len(before) - 1)
               [] OTHER            -> before

\* The tokens that may follow toks in a page: a start tag while fewer than
\* MaxDepth elements are open (no rt inside an rt), the end tag of the innermost
\* open element, a string after a tag
NextTokens(toks) ==
    LET open  == OpenElements(toks)
        in_rt == \E i \in 1..Len(open) : open[i] = "rt"
    IN  {StartTag(tag) : tag \in {x \in {"p", "rt"} :
                                     Len(open) < MaxDepth /\ (x = "rt" => ~in_rt)}}
            \cup (IF open = <<>> THEN {} ELSE {EndTag(open[Len(open)])})
            \cup (IF toks # <<>> /\ toks[Len(toks)].kind = "text" THEN {}
                  ELSE {TextNode(str) : str \in IF in_rt THEN RtTexts ELSE BaseTexts})

Tokens ==
    {StartTag(tag) : tag \in {"p", "rt"}} \cup {EndTag(tag) : tag \in {"p", "rt"}}
        \cup {TextNode(str) : str \in BaseTexts \cup RtTexts}

InitHtml ==
    /\ IdleMain
    /\ IdleVoicevox
    /\ fn = "parse"
    /\ fn_arg = <<>>
    /\ fn_ret = <<>>

\* parse_article_html, lines 114-115: the parser reads one more token of the
\* body container (of the outline, at line 188)
Feed(tok) ==
    /\ fn = "parse"
    /\ Len(fn_arg) < MaxTokens
    /\ tok \in NextTokens(fn_arg)
    /\ fn_arg' = Append(fn_arg, tok)
    /\ UNCHANGED <<fn, fn_ret, main_vars, voicevox_vars>>

\* parse_article_html, lines 127-130: body_html, then body_text
CallExtractTextWithoutRuby ==
    /\ fn = "parse"
    /\ OpenElements(fn_arg) = <<>>
    /\ fn' = "body"
    /\ LET body_html == fn_arg
           body_text == ExtractTextWithoutRuby(fn_arg)
       IN  fn_ret' = [annotated |-> body_html, plain |-> body_text]
    /\ UNCHANGED <<fn_arg, main_vars, voicevox_vars>>

\* parse_article_html, lines 133-134: outline_with_ruby, then outline
CallExtractTextFromHtml ==
    /\ fn = "parse"
    /\ OpenElements(fn_arg) = <<>>
    /\ fn' = "outline"
    /\ LET outline_with_ruby == fn_arg
           outline == ExtractTextFromHtml(outline_with_ruby)
       IN  fn_ret' = [annotated |-> outline_with_ruby, plain |-> outline]
    /\ UNCHANGED <<fn_arg, main_vars, voicevox_vars>>

NextHtml ==
    \/ \E tok \in Tokens : Feed(tok)
    \/ CallExtractTextWithoutRuby
    \/ CallExtractTextFromHtml

SpecHtml == InitHtml /\ [][NextHtml]_vars

\* The number of rt elements open at token i
RtDepthAt(toks, i) ==
    Cardinality({j \in 1..(i - 1) : toks[j].kind = "start" /\ toks[j].tag = "rt"})
        - Cardinality({j \in 1..(i - 1) : toks[j].kind = "end" /\ toks[j].tag = "rt"})

\* The characters other than spaces of the strings at lo..hi that are in no rt
RECURSIVE Letters(_, _, _)
Letters(toks, lo, hi) ==
    IF lo > hi THEN <<>>
    ELSE (IF toks[lo].kind = "text" /\ RtDepthAt(toks, lo) = 0
          THEN SelectSeq(toks[lo].text, LAMBDA c : c # " ")
          ELSE <<>>) \o Letters(toks, lo + 1, hi)

\* The rt elements of an element: where they start and end, and their strings
RtTokens(toks) ==
    SelectSeq([i \in 1..Len(toks) |-> <<i, toks[i]>>],
              LAMBDA x : x[2].tag = "rt" \/ RtDepthAt(toks, x[1]) > 0)

\* C19: the plain text of a body container and of an outline has none of the
\* text of an rt element, at any depth (that of an outline, and of a body
\* with no paragraph, is the text outside the rt elements); the annotated
\* variant has every rt element of the source, where it was.
C19_PlainTextHasNoRt ==
    fn \in {"body", "outline"} =>
        /\ \A i \in 1..Len(fn_ret.plain) : fn_ret.plain[i] \notin {"r"}
        /\ (fn = "outline" \/ \A i \in 1..Len(fn_arg) : fn_arg[i].tag # "p")
               => fn_ret.plain = Letters(fn_arg, 1, Len(fn_arg))
        /\ RtTokens(fn_ret.annotated) = RtTokens(fn_arg)
        /\ fn_ret.annotated = fn_arg

C19_Witness ==
    /\ fn = "body"
    /\ fn_arg = <<StartTag("p"), TextNode(<<"a">>), StartTag("rt"), TextNode(<<"r">>),
                  EndTag("rt"), EndTag("p")>>
    /\ fn_ret.plain = <<"a">>
    /\ fn_ret.annotated = fn_arg

\* ---------------------------------------------------------------- C20
\* The end tag of the element that starts at token i: the first token at
\* which as many elements have ended as have started since i
MatchingEnd(toks, i) ==
    LET closed(j) == Cardinality({k \in i..j : toks[k].kind = "start"})
                        = Cardinality({k \in i..j : toks[k].kind = "end"})
    IN  CHOOSE j \in (i + 1)..Len(toks) :
            closed(j) /\ \A k \in (i + 1)..(j - 1) : ~closed(k)

\* The text, rt elements left out, of each paragraph that is in no rt
\* element, in document order
ParagraphTexts(toks) ==
    LET starts == SelectSeq([i \in 1..Len(toks) |-> i],
                            LAMBDA i : toks[i].kind = "start" /\ toks[i].tag = "p"
                                          /\ RtDepthAt(toks, i) = 0)
    IN  [n \in 1..Len(starts) |-> Letters(toks, starts[n] + 1, MatchingEnd(toks, starts[n]) - 1)]

\* The lines one after the other, a newline between two of them
NewlineJoined(lines) ==
    LET at(n) == IF n = 1 THEN <<>> ELSE <<"\n">>
        RECURSIVE upto(_)
        upto(n) == IF n = 0 THEN <<>> ELSE upto(n - 1) \o at(n) \o lines[n]
    IN  upto(Len(lines))

RECURSIVE ArticlesInRangeFrom(_)
ArticlesInRangeFrom(d) ==
    IF d > MaxDate THEN <<>>
    ELSE (IF d \in DOMAIN news_list /\ start_date <= d /\ d <= end_date
          THEN news_list[d] ELSE <<>>) \o ArticlesInRangeFrom(d + 1)

\* The articles the run has visited so far: those it reported, then the one at hand.
Visited ==
    [i \in 1..Len(log) |-> log[i][1]]
        \o (IF pc \in {"check", "fetch", "insert"} THEN <<news_id>> ELSE <<>>)

\* The articles visited are a beginning of the articles in range, the article
\* at hand is the one at its place among them, and the rows checked, the pages
\* fetched and the rows inserted are no more than the articles visited.
VisitedInRangeInOrder ==
    LET expected == ArticlesInRangeFrom(1)
    IN  /\ Len(Visited) <= total_articles
        /\ total_articles <= Len(expected)
        /\ Visited = SubSeq(expected, 1, Len(Visited))
        /\ total_articles > 0 => news_id = expected[total_articles]
        /\ db_statements.select <= total_articles
        /\ db_statements.insert <= total_articles
        /\ http.article <= total_articles

\* C14: the articles a run processes are exactly the articles of the catalog
\* under the dates within [start_date, end_date], each once, dates ascending
\* and catalog order within a date, and none outside the range: nothing out of
\* range or out of order is visited, and a run that entered the loop over the
\* dates has visited every article in range when it ends.
C14_ExactlyTheArticlesInRange ==
    /\ VisitedInRangeInOrder
    /\ (pc = "exited" /\ date_idx >= 1) => Visited = ArticlesInRangeFrom(1)

\* ---------------------------------------------------------------- C15
\* C15: a run never modifies and never deletes a row that was in the table
\* when it started: the table at any moment of the run, and after it, begins
\* with the rows it had before, unchanged and in place; a dry run leaves the
\* table as it was.
C15_ExistingRowsUntouched ==
    /\ Len(store0) <= Len(store)
    /\ SubSeq(store, 1, Len(store0)) = store0
    /\ dry_run => store = store0

C15_Witness ==
    /\ pc = "exited"
    /\ ~dry_run
    /\ store0 # <<>>
    /\ Len(store) > Len(store0)
    /\ db_statements.select >= 1

\* ---------------------------------------------------------------- C21
\* main run from a command line that is known: fn_arg holds what argparse gives
\* main (lines 243-247), NoArg for an option that was left out.
CommandLines == [days : DayArgs, start_date : DateArgs, end_date : DateArgs,
                 dry_run : BOOLEAN]

InitArgs ==
    /\ IdleMain
    /\ IdleVoicevox
    /\ fn = "main"
    /\ fn_arg \in CommandLines
    /\ fn_ret = <<>>

NextArgs ==
    \/ ParseArgs(fn_arg.days, fn_arg.start_date, fn_arg.end_date, fn_arg.dry_run)
    \/ \E r \in HttpOutcomes : Authenticate(r)
    \/ \E r \in HttpOutcomes \ {"200"} : FetchNewsList(r, NoCatalog, "mapping")
    \/ FetchNewsList("200", NoCatalog, "empty_list")
    \/ \E c \in Catalogs, shape \in Shapes \ {"empty_list"} : FetchNewsList("200", c, shape)
    \/ \E r \in DbOutcomes : Connect(r)
    \/ NextDate
    \/ \E meta \in Metas : NextArticle(meta)
    \/ \E r \in DbOutcomes : CheckExists(r)
    \/ \E r \in PageOutcomes : ParseArticleHtml(r)
    \/ \E r \in DbOutcomes : InsertArticle(r)
    \/ \E r \in DbOutcomes : Commit(r)
    \/ Finally
    \/ Summary

SpecArgs == InitArgs /\ [][NextArgs]_vars

\* C21: once the arguments are parsed, a run given a days-back count N >= 0 has
\* the range [today - N, today], whatever dates were given with it; a run given
\* no count and both dates has that pair; every other run has exited with
\* status 1 and has sent no HTTP request and opened no database connection.
C21_EveryCountGivesItsRange ==
    (fn = "main" /\ pc # "idle") =>
        IF fn_arg.days # NoArg /\ fn_arg.days >= 0
        THEN /\ start_date = Today - fn_arg.days
             /\ end_date = Today
        ELSE IF fn_arg.start_date # NoArg /\ fn_arg.end_date # NoArg
        THEN /\ start_date = fn_arg.start_date
             /\ end_date = fn_arg.end_date
        ELSE /\ pc = "exited"
             /\ exit_status = 1
             /\ http = NoHttp
             /\ conn = "none"

\* ---------------------------------------------------------------- C24
\* C24: in every run, a session that has sent a catalog or an article request
\* is authenticated, by its one authorization exchange; the run is about to
\* send its first catalog request only when its latest exchange is the
\* authorization answered 200, and an article request only when authenticated;
\* a session whose authorization exchange was not answered 200 is still
\* unauthenticated, has sent no other request, and its run has ended.
C24_AuthorizationPrecedesRequests ==
    (pc # "idle") =>
        /\ (http.list > 0 \/ http.article > 0) =>
              /\ authenticated
              /\ http.auth = 1
        /\ (pc = "list") =>
              /\ authenticated
              /\ last_response = [url |-> "auth", status |-> "200", json |-> ""]
        /\ (pc = "fetch") => authenticated
        /\ authenticated =>
              /\ http.auth = 1
              /\ last_response.url = "auth" => last_response.status = "200"
        /\ (http.auth >= 1 /\ ~authenticated) =>
              /\ last_response.url = "auth"
              /\ last_response.status # "200"
              /\ http.list = 0
              /\ http.article = 0
              /\ pc = "exited"
              /\ exit_status = 1

C24_Witness ==
    /\ authenticated
    /\ http.auth = 1
    /\ http.list = 1
    /\ http.article >= 2

\* ---------------------------------------------------------------- C25
\* C25: the connection is open only in a run that is not a dry run, after its
\* catalog request, with a date in the range, and while the run is in the
\* article loop, the commit or the finally block; a run that has left them,
\* normally or by an exception of a SELECT, a page fetch, an INSERT or the
\* commit, has closed the connection it opened; a SELECT, an INSERT and the
\* commit are issued only while it is open, and once it is closed the run only
\* prints and exits.
C25_ConnectionOpenedLateClosedAlways ==
    (pc # "idle") =>
        /\ (conn = "open") =>
              /\ ~dry_run
              /\ http.list >= 1
              /\ target_dates # <<>>
              /\ pc \in {"dates", "articles", "check", "fetch", "insert", "commit",
                         "finally"}
        /\ dry_run => conn = "none"
        /\ (conn = "none") => db_statements = NoStatements
        /\ (pc \in {"check", "insert", "commit"} /\ ~dry_run) => conn = "open"
        /\ (pc \in {"summary", "exited"}) => conn # "open"
        /\ (~dry_run /\ (exc \/ db_statements.commit >= 1) /\ pc \in {"summary", "exited"}) =>
              conn = "closed"
        /\ (conn = "closed") => pc \in {"summary", "exited"}

C25_Witness ==
    /\ pc = "exited"
    /\ exit_status = 1
    /\ conn = "closed"
    /\ db_statements.insert >= 1
    /\ db_statements.commit = 1

\* ---------------------------------------------------------------- C26
\* C26: after a catalog request answered 200, whose JSON is a mapping or a list,
\* fetch_news_list has returned a mapping, and a run that ends there, having
\* found no date in the range, ends by the return of the empty range with
\* status 0, not by an uncaught exception.
C26_EmptySequenceIsEmptyCatalog ==
    (last_response.url = "list" /\ last_response.status = "200") =>
        /\ last_response.json = "dict"
        /\ (pc = "exited" /\ target_dates = <<>>) => exit_status = 0

\* ------------------------------------------- nhk-api-railway/main.py (C22)
\* A string is a sequence of one element, None the empty sequence; Python's
\* truth value of an optional string: None and '' are false.
Truthy(s) == s # <<>> /\ s # <<"">>

ApiKeys == {"k1", "k2"}
OptionalKeys == {<<>>, <<"">>} \cup {<<k>> : k \in ApiKeys}
ProxyPaths == {"/health", "/news", "/", "/other"}
UpstreamOutcomes == {"200", "500", "timeout", "error"}

\* verify_api_key, lines 26-36
VerifyApiKey(API_KEY, api_key) ==
    IF ~Truthy(API_KEY) THEN "ok"
    ELSE IF ~Truthy(api_key) \/ api_key # API_KEY THEN "401"
    ELSE "ok"

\* One GET request to the proxy: the process has read NHK_API_KEY (line 19), the
\* request has a path and maybe an X-API-Key header, the upstream will answer
\* in one of four ways if it is asked.
InitProxy ==
    /\ IdleMain
    /\ IdleVoicevox
    /\ fn = "request"
    /\ fn_arg \in [API_KEY : OptionalKeys, path : ProxyPaths, api_key : OptionalKeys,
                   upstream : UpstreamOutcomes]
    /\ fn_ret = <<>>

\* health, lines 39-46
Health ==
    /\ fn = "request"
    /\ fn_arg.path = "/health"
    /\ fn' = "return"
    /\ fn_ret' = [status |-> "200", upstream_requests |-> 0]
    /\ UNCHANGED <<fn_arg, main_vars, voicevox_vars>>

\* root, lines 85-96
Root ==
    /\ fn = "request"
    /\ fn_arg.path = "/"
    /\ fn' = "return"
    /\ fn_ret' = [status |-> "200", upstream_requests |-> 0]
    /\ UNCHANGED <<fn_arg, main_vars, voicevox_vars>>

\* A path with no route: FastAPI answers 404
NoRoute ==
    /\ fn = "request"
    /\ fn_arg.path \notin {"/health", "/news", "/"}
    /\ fn' = "return"
    /\ fn_ret' = [status |-> "404", upstream_requests |-> 0]
    /\ UNCHANGED <<fn_arg, main_vars, voicevox_vars>>

\* get_news, line 54: the dependency verify_api_key runs before the handler
DependsVerifyApiKey ==
    /\ fn = "request"
    /\ fn_arg.path = "/news"
    /\ IF VerifyApiKey(fn_arg.API_KEY, fn_arg.api_key) = "ok"
       THEN /\ fn' = "get_news"
            /\ UNCHANGED fn_ret
       ELSE /\ fn' = "return"
            /\ fn_ret' = [status |-> "401", upstream_requests |-> 0]
    /\ UNCHANGED <<fn_arg, main_vars, voicevox_vars>>

\* get_news, lines 64-82: the request to the upstream and its answer passed on
GetNews ==
    /\ fn = "get_news"
    /\ fn' = "return"
    /\ fn_ret' = [status |-> CASE fn_arg.upstream = "timeout" -> "504"
                               [] fn_arg.upstream = "error" -> "502"
                               [] OTHER -> fn_arg.upstream,
                  upstream_requests |-> 1]
    /\ UNCHANGED <<fn_arg, main_vars, voicevox_vars>>

NextProxy == Health \/ Root \/ NoRoute \/ DependsVerifyApiKey \/ GetNews

SpecProxy == InitProxy /\ [][NextProxy]_vars

\* C22 as claimed: whatever NHK_API_KEY is, a GET /news whose X-API-Key is
\* missing or is not the configured key is answered 401 with no upstream request.
C22_NewsAlwaysNeedsTheKey ==
    (fn = "return" /\ fn_arg.path = "/news"
        /\ (fn_arg.api_key = <<>> \/ fn_arg.api_key # fn_arg.API_KEY)) =>
        /\ fn_ret.status = "401"
        /\ fn_ret.upstream_requests = 0

\* ------------------------- voicevox-tts and ollama-llm: AuthMiddleware (C27)
ServicePaths == {"/health", "/health/", "/", "/v1/audio/speech"}

\* AuthMiddleware.dispatch that checks the key only when one is configured
VoicevoxDispatch_OpenWithoutKey(API_KEY, path, api_key) ==
    IF path = "/health" THEN "call_next"
    ELSE IF Truthy(API_KEY) /\ (~Truthy(api_key) \/ api_key # API_KEY) THEN "401"
    ELSE "call_next"

\* deploy_voicevox.py, AuthMiddleware.dispatch, lines 46-58
VoicevoxDispatch(API_KEY, path, api_key) ==
    IF path = "/health" THEN "call_next"
    ELSE IF ~Truthy(api_key) \/ api_key # API_KEY THEN "401"
    ELSE "call_next"

\* deploy_ollama.py, AuthMiddleware.dispatch, lines 113-125
OllamaDispatch(API_KEY, path, api_key) ==
    IF path = "/health" THEN "call_next"
    ELSE IF ~Truthy(api_key) \/ api_key # API_KEY THEN "401"
    ELSE "call_next"

\* One request to one of the two services: the process has read
\* MOSHIMOSHI_API_KEY, the request has a path and maybe an X-API-Key header.
InitMiddleware ==
    /\ IdleMain
    /\ IdleVoicevox
    /\ fn = "request"
    /\ fn_arg \in [service : {"voicevox", "ollama"}, API_KEY : OptionalKeys,
                   path : ServicePaths, api_key : OptionalKeys]
    /\ fn_ret = <<>>

Dispatch(service, decision) ==
    /\ fn = "request"
    /\ fn_arg.service = service
    /\ IF decision = "call_next"
       THEN /\ fn' = "call_next"
            /\ UNCHANGED fn_ret
       ELSE /\ fn' = "return"
            /\ fn_ret' = [status |-> "401", handler_ran |-> FALSE]
    /\ UNCHANGED <<fn_arg, main_vars, voicevox_vars>>

VoicevoxMiddleware ==
    Dispatch("voicevox", VoicevoxDispatch(fn_arg.API_KEY, fn_arg.path, fn_arg.api_key))

OllamaMiddleware ==
    Dispatch("ollama", OllamaDispatch(fn_arg.API_KEY, fn_arg.path, fn_arg.api_key))

\* call_next: the route's handler runs and its response is the middleware's
CallNext ==
    /\ fn = "call_next"
    /\ fn' = "return"
    /\ \E status \in {"200", "404", "500", "503"} :
          fn_ret' = [status |-> status, handler_ran |-> TRUE]
    /\ UNCHANGED <<fn_arg, main_vars, voicevox_vars>>

NextMiddleware == VoicevoxMiddleware \/ OllamaMiddleware \/ CallNext

SpecMiddleware == InitMiddleware /\ [][NextMiddleware]_vars

\* C27: in both services a request whose path is not exactly /health reaches
\* its handler exactly when its X-API-Key is present, not empty and equal to
\* MOSHIMOSHI_API_KEY, and is answered 401 with the handler not run otherwise,
\* so with no key configured every such request is answered 401; a request to
\* /health reaches its handler whatever its key.
C27_MiddlewareFailsClosed ==
    LET keyed == /\ fn_arg.api_key # <<>>
                 /\ fn_arg.api_key # <<"">>
                 /\ fn_arg.api_key = fn_arg.API_KEY
    IN  /\ (fn = "call_next") => (fn_arg.path = "/health" \/ keyed)
        /\ (fn = "return") =>
              IF fn_arg.path = "/health" \/ keyed
              THEN fn_ret.handler_ran
              ELSE fn_ret = [status |-> "401", handler_ran |-> FALSE]
        /\ (fn = "return" /\ fn_arg.path # "/health" /\ fn_arg.API_KEY = <<>>) =>
              fn_ret = [status |-> "401", handler_ran |-> FALSE]

C27_Witness ==
    /\ fn = "return"
    /\ fn_arg.path = "/v1/audio/speech"
    /\ fn_arg.API_KEY = <<>>
    /\ fn_arg.api_key = <<"k1">>
    /\ fn_ret.status = "401"

\* ---------------------------------------- voicevox-tts: serve (C28, C29)
PollLimit == 180
WaitLimit == 180

\* serve, lines 62-90: the flag is False and the thread is started
InitVoicevox ==
    /\ IdleMain
    /\ fn = "serve"
    /\ fn_arg = <<>>
    /\ fn_ret = <<>>
    /\ engine_ready = FALSE
    /\ engine_thread = [pc |-> "popen", polls |-> 0, got200 |-> FALSE]
    /\ speech = NoSpeech

\* start_engine, lines 70-75: the engine process is started, or Popen raises
\* and the thread ends
Popen(r) ==
    /\ engine_thread.pc = "popen"
    /\ engine_thread' = [engine_thread EXCEPT !.pc = IF r = "ok" THEN "poll" ELSE "done"]
    /\ UNCHANGED <<engine_ready, speech, fn_vars, main_vars>>

\* Poll returning at a 200 answer without setting the flag (line 83 left out)
Poll_FlagNotSet(r) ==
    /\ engine_thread.pc = "poll"
    /\ engine_thread.polls < PollLimit
    /\ engine_thread' =
          [pc |-> IF r = "200" \/ engine_thread.polls + 1 = PollLimit
                  THEN "done" ELSE "poll",
           polls |-> engine_thread.polls + 1,
           got200 |-> (r = "200")]
    /\ UNCHANGED <<engine_ready, speech, fn_vars, main_vars>>

\* start_engine, lines 78-88: one turn of the loop, GET /version and, unless it
\* is answered 200, the sleep; the thread ends at a 200 or after PollLimit turns
Poll(r) ==
    /\ engine_thread.pc = "poll"
    /\ engine_thread.polls < PollLimit
    /\ engine_thread' =
          [pc |-> IF r = "200" \/ engine_thread.polls + 1 = PollLimit
                  THEN "done" ELSE "poll",
           polls |-> engine_thread.polls + 1,
           got200 |-> (r = "200")]
    /\ engine_ready' = IF r = "200" THEN TRUE ELSE engine_ready
    /\ UNCHANGED <<speech, fn_vars, main_vars>>

\* A POST /v1/audio/speech reaches create_speech (line 99), after the one before
\* it was answered
CreateSpeech ==
    /\ speech.pc \in {"", "done"}
    /\ speech' = [NoSpeech EXCEPT !.pc = "wait"]
    /\ UNCHANGED <<engine_ready, engine_thread, fn_vars, main_vars>>

\* create_speech, lines 102-105: one turn of the wait loop
WaitEngine ==
    /\ speech.pc = "wait"
    /\ IF engine_ready
       THEN speech' = [speech EXCEPT !.pc = "check", !.observed = TRUE]
       ELSE speech' = [speech EXCEPT !.waits = @ + 1,
                          !.pc = IF speech.waits + 1 = WaitLimit THEN "check" ELSE "wait"]
    /\ UNCHANGED <<engine_ready, engine_thread, fn_vars, main_vars>>

\* create_speech without the test of lines 106-107
CheckEngine_NoTest ==
    /\ speech.pc = "check"
    /\ speech' = [speech EXCEPT !.pc = "query", !.observed = @ \/ engine_ready]
    /\ UNCHANGED <<engine_ready, engine_thread, fn_vars, main_vars>>

\* create_speech, lines 106-107: 503 unless the flag is set
CheckEngine ==
    /\ speech.pc = "check"
    /\ IF engine_ready
       THEN speech' = [speech EXCEPT !.pc = "query", !.observed = TRUE]
       ELSE speech' = [speech EXCEPT !.pc = "done", !.status = "503"]
    /\ UNCHANGED <<engine_ready, engine_thread, fn_vars, main_vars>>

\* The status create_speech answers when a request to the engine is not
\* answered 200: lines 119-120, 132-133 and 141-144.
SpeechFailure(r) == IF r = "timeout" THEN "504" ELSE "500"

\* create_speech, lines 110-123: POST /audio_query
AudioQuery(r) ==
    /\ speech.pc = "query"
    /\ speech' = IF r = "200"
                 THEN [speech EXCEPT !.pc = "synth", !.engine_requests = @ + 1]
                 ELSE [speech EXCEPT !.pc = "done", !.engine_requests = @ + 1,
                                     !.status = SpeechFailure(r)]
    /\ UNCHANGED <<engine_ready, engine_thread, fn_vars, main_vars>>

\* create_speech, lines 125-139: POST /synthesis
Synthesis(r) ==
    /\ speech.pc = "synth"
    /\ speech' = [speech EXCEPT !.pc = "done", !.engine_requests = @ + 1,
                     !.status = IF r = "200" THEN "200" ELSE SpeechFailure(r)]
    /\ UNCHANGED <<engine_ready, engine_thread, fn_vars, main_vars>>

\* health, lines 168-170: the status a GET /health is answered with
HealthStatus == IF engine_ready THEN "healthy" ELSE "starting"

EngineAnswers == {"200", "non200", "timeout", "error"}

StartEngine ==
    \/ \E r \in {"ok", "raises"} : Popen(r)
    \/ \E r \in EngineAnswers : Poll(r)

SpeechStep ==
    \/ WaitEngine
    \/ CheckEngine
    \/ \E r \in EngineAnswers : AudioQuery(r)
    \/ \E r \in EngineAnswers : Synthesis(r)

NextVoicevox == StartEngine \/ CreateSpeech \/ SpeechStep

SpecVoicevox == InitVoicevox /\ [][NextVoicevox]_vars

\* The thread and the handler are scheduled: a step they can take is taken.
FairVoicevox == SpecVoicevox /\ WF_vars(StartEngine) /\ WF_vars(SpeechStep)

\* C28: engine_ready changes only from false to true, in the step of
\* start_engine whose GET /version was answered 200; create_speech sends a
\* request to the engine only after it has read engine_ready true, and a
\* request that has not read it true is answered 503 with no request sent.
C28_ReadyOnceAndSeenBeforeSynthesis ==
    [][ /\ (engine_ready' # engine_ready) =>
              /\ ~engine_ready
              /\ engine_ready'
              /\ engine_thread.pc = "poll"
              /\ engine_thread'.got200
        /\ engine_ready => engine_ready'
        /\ (speech'.engine_requests > speech.engine_requests) =>
              /\ speech.observed
              /\ engine_ready
        /\ (speech'.pc = "done" /\ ~speech'.observed) =>
              /\ speech'.status = "503"
              /\ speech'.engine_requests = 0
        /\ (speech'.status = "503") =>
              /\ ~speech'.observed
              /\ speech'.waits = WaitLimit
              /\ speech'.engine_requests = 0
      ]_vars

C28_Witness ==
    /\ speech.pc = "done"
    /\ speech.status = "200"
    /\ speech.waits >= 1
    /\ speech.observed
    /\ speech.engine_requests = 2

\* ---------------------------------------------------------------- C29
\* C29: the start_engine thread ends, after at most PollLimit polls, and when
\* it has ended engine_ready is true exactly if a poll was answered 200 and
\* neither the thread nor the flag changes again; after a poll answered 200
\* health reports 'healthy' from then on; while no poll was answered 200 every
\* create_speech request ends, and ends in 503.
C29_StartEngineEndsAndDecides ==
    /\ <>(engine_thread.pc = "done")
    /\ [](engine_thread.polls <= PollLimit)
    /\ [](engine_thread.pc = "done" => (engine_ready <=> engine_thread.got200))
    /\ [][engine_thread.pc = "done" =>
             (engine_thread' = engine_thread /\ engine_ready' = engine_ready)]_vars
    /\ [](engine_thread.got200 => [](HealthStatus = "healthy"))
    /\ [](~engine_thread.got200 => HealthStatus = "starting")
    /\ [](speech.pc = "wait" => <>(speech.pc = "done"))
    /\ []((speech.pc = "done" /\ ~engine_ready) => speech.status = "503")

C29_Witness ==
    /\ engine_thread = [pc |-> "done", polls |-> PollLimit, got200 |-> FALSE]
    /\ ~engine_ready
    /\ speech.pc = "done"
    /\ speech.status = "503"
    /\ HealthStatus = "starting"

\* ------------------------------------ transcript-service/server.py (C23, C30)
MaxTranscripts == 2

\* A transcript of the list, by what the code reads of it: language_code,
\* language (a name that contains 'japanese', "Nihongo" for one that contains
\* the kanji name of the language, or neither) and is_generated.
Transcripts == [language_code : {"ja", "en"},
                language : {"Japanese", "Nihongo", "English"},
                is_generated : BOOLEAN]

\* fetch_japanese_transcript, lines 73-75
IsJapanese(transcript) ==
    \/ transcript.language_code = "ja"
    \/ transcript.language = "Japanese"
    \/ transcript.language = "Nihongo"

\* The positions of the Japanese transcripts of the list from position i on,
\* in order (lines 73-79); of those that are not generated when manual_only
\* (line 88)
RECURSIVE JapanesePositions(_, _, _)
JapanesePositions(list, i, manual_only) ==
    IF i > Len(list) THEN <<>>
    ELSE IF IsJapanese(list[i]) /\ (manual_only => ~list[i].is_generated)
    THEN <<i>> \o JapanesePositions(list, i + 1, manual_only)
    ELSE JapanesePositions(list, i + 1, manual_only)

\* The selection without the preference of lines 88-91: the first Japanese one
SelectedTranscript_FirstJapanese(transcript_list) ==
    LET japanese_transcripts == JapanesePositions(transcript_list, 1, FALSE)
    IN  IF japanese_transcripts # <<>> THEN japanese_transcripts[1] ELSE 0

\* fetch_japanese_transcript, lines 59-95: the position in the list of
\* selected_transcript, 0 when there is no Japanese transcript
SelectedTranscript(transcript_list) ==
    LET japanese_transcripts == JapanesePositions(transcript_list, 1, FALSE)
        manual_japanese == JapanesePositions(transcript_list, 1, TRUE)
    IN  IF japanese_transcripts # <<>>
        THEN IF manual_japanese # <<>> THEN manual_japanese[1]
             ELSE japanese_transcripts[1]
        ELSE 0

\* get_transcript, lines 192-199: video_id, None (<<>>) when the method reads
\* none; a JSON body that is a list or a string containing 'videoId' passes
\* the test of line 198 and raises TypeError at line 199.
RequestVideoId(method, query, json) ==
    CASE method = "GET" -> [raises |-> "", val |-> query]
      [] method = "POST" /\ json = "list" -> [raises |-> "TypeError", val |-> <<>>]
      [] method = "POST" /\ json \in {"none", "dict"} -> [raises |-> "", val |-> <<>>]
      [] method = "POST" -> [raises |-> "", val |-> <<json>>]
      [] OTHER -> [raises |-> "", val |-> <<>>]

VideoIds == {"v1"}
Methods == {"GET", "POST", "OPTIONS", "HEAD"}
\* request.args.get('videoId'): absent, empty or an id
Queries == {<<>>, <<"">>} \cup {<<v>> : v \in VideoIds}
\* request.get_json(silent=True): no JSON, a dict without the key, a list
\* ['videoId'], or a dict whose videoId is the empty string or an id
JsonBodies == {"none", "dict", "list", ""} \cup VideoIds
ListOutcomes == {"ok", "TranscriptsDisabled", "NoTranscriptFound", "Exception"}
FetchOutcomes == {"ok", "Exception"}

NoResult == [status |-> "", video_id |-> <<>>, list_calls |-> 0, selected |-> 0,
             fetch_calls |-> 0, available |-> <<>>, videoId |-> <<>>]

InitTranscript ==
    /\ IdleMain
    /\ IdleVoicevox
    /\ fn = "request"
    /\ fn_arg \in [method : Methods, query : Queries, json : JsonBodies,
                   list : ListOutcomes, transcript_list : SeqsUpTo(Transcripts, MaxTranscripts),
                   fetch : FetchOutcomes]
    /\ fn_ret = NoResult

\* get_transcript, lines 183-188
Preflight ==
    /\ fn = "request"
    /\ fn_arg.method = "OPTIONS"
    /\ fn' = "return"
    /\ fn_ret' = [fn_ret EXCEPT !.status = "204"]
    /\ UNCHANGED <<fn_arg, main_vars, voicevox_vars>>

\* get_transcript, lines 190-210 and 214-221
GetTranscript ==
    /\ fn = "request"
    /\ fn_arg.method # "OPTIONS"
    /\ LET video_id == RequestVideoId(fn_arg.method, fn_arg.query, fn_arg.json)
       IN  IF video_id.raises # ""
           THEN /\ fn' = "return"
                /\ fn_ret' = [fn_ret EXCEPT !.status = "500", !.available = <<FALSE>>]
           ELSE IF ~Truthy(video_id.val)
           THEN /\ fn' = "return"
                /\ fn_ret' = [fn_ret EXCEPT !.status = "400"]
           ELSE /\ fn' = "fetch_japanese_transcript"
                /\ fn_ret' = [fn_ret EXCEPT !.video_id = video_id.val]
    /\ UNCHANGED <<fn_arg, main_vars, voicevox_vars>>

\* fetch_japanese_transcript, lines 54-104 and 149-173, then line 212
ListTranscripts ==
    /\ fn = "fetch_japanese_transcript"
    /\ IF fn_arg.list # "ok"
       THEN /\ fn' = "return"
            /\ fn_ret' = [fn_ret EXCEPT !.list_calls = 1, !.available = <<FALSE>>,
                             !.videoId = fn_ret.video_id, !.status = "200"]
       ELSE LET selected == SelectedTranscript(fn_arg.transcript_list)
            IN  IF selected = 0
                THEN /\ fn' = "return"
                     /\ fn_ret' = [fn_ret EXCEPT !.list_calls = 1, !.available = <<FALSE>>,
                                      !.videoId = fn_ret.video_id, !.status = "200"]
                ELSE /\ fn' = "fetch"
                     /\ fn_ret' = [fn_ret EXCEPT !.list_calls = 1, !.selected = selected]
    /\ UNCHANGED <<fn_arg, main_vars, voicevox_vars>>

\* fetch_japanese_transcript, lines 106-147 and 163-173, then line 212
FetchTranscript ==
    /\ fn = "fetch"
    /\ fn' = "return"
    /\ fn_ret' = [fn_ret EXCEPT !.fetch_calls = 1, !.available = <<fn_arg.fetch = "ok">>,
                     !.videoId = fn_ret.video_id, !.status = "200"]
    /\ UNCHANGED <<fn_arg, main_vars, voicevox_vars>>

NextTranscript == Preflight \/ GetTranscript \/ ListTranscripts \/ FetchTranscript

SpecTranscript == InitTranscript /\ [][NextTranscript]_vars

\* C23: once the transcripts are listed, the selected transcript is the first
\* Japanese one that is not generated if there is one, otherwise the first
\* Japanese one, so a generated one is selected only when no Japanese one is
\* manual; with no Japanese transcript the result has available = false and
\* no transcript was fetched.
C23_ManualJapaneseFirst ==
    (fn_ret.list_calls = 1 /\ fn_arg.list = "ok") =>
        LET list == fn_arg.transcript_list
            japanese == {i \in 1..Len(list) :
                            \/ list[i].language_code = "ja"
                            \/ list[i].language \in {"Japanese", "Nihongo"}}
            manual == {i \in japanese : ~list[i].is_generated}
            First(s) == CHOOSE i \in s : \A j \in s : i <= j
        IN  /\ japanese = {} =>
                  /\ fn = "return"
                  /\ fn_ret.selected = 0
                  /\ fn_ret.available = <<FALSE>>
                  /\ fn_ret.fetch_calls = 0
            /\ manual # {} => fn_ret.selected = First(manual)
            /\ (japanese # {} /\ manual = {}) => fn_ret.selected = First(japanese)
            /\ (fn_ret.selected # 0 /\ list[fn_ret.selected].is_generated) => manual = {}
            /\ fn_ret.fetch_calls = 1 => fn_ret.selected # 0

C23_Witness ==
    /\ fn = "return"
    /\ fn_ret.fetch_calls = 1
    /\ Len(fn_arg.transcript_list) = 2
    /\ fn_arg.transcript_list[1].language_code = "ja"
    /\ fn_arg.transcript_list[1].is_generated
    /\ fn_arg.transcript_list[2].language = "Nihongo"
    /\ ~fn_arg.transcript_list[2].is_generated
    /\ fn_ret.selected = 2

\* C30: fetch_japanese_transcript ends without raising, and when its listing
\* or its fetch failed its result has available = false and the requested
\* videoId; the route answers 204 to OPTIONS; another request is answered 400,
\* with no call of the transcript API, exactly when it supplies no videoId, and
\* 200 when it supplies one, in its query string or in its JSON body.
C30_ErrorsAreValues ==
    (fn = "return") =>
        LET supplied == \/ Truthy(fn_arg.query)
                        \/ fn_arg.json \in VideoIds
        IN  /\ fn_ret.list_calls = 1 =>
                  /\ fn_ret.status = "200"
                  /\ fn_ret.videoId = fn_ret.video_id
                  /\ (fn_arg.list # "ok" \/ (fn_ret.fetch_calls = 1 /\ fn_arg.fetch # "ok"))
                        => fn_ret.available = <<FALSE>>
            /\ fn_arg.method = "OPTIONS" => fn_ret.status = "204"
            /\ fn_arg.method # "OPTIONS" =>
                  /\ fn_ret.status = "400" <=> ~supplied
                  /\ fn_ret.status = "400" => fn_ret.list_calls = 0
                  /\ supplied => fn_ret.status = "200"

====
